---- MODULE Spec2Model ----
(***************************************************************************)
(* A model of the rustnes emulator core: the 6502 interpreter (cpu.rs),    *)
(* the memory bus (bus.rs) and the PPU (ppu.rs, control.rs, status.rs,     *)
(* mask.rs).  The three structs CPU, Bus and NesPPU are the records cpu,   *)
(* bus and ppu; a Rust panic is the variable fault, after which nothing    *)
(* runs any more.                                                          *)
(***************************************************************************)
EXTENDS Integers, Sequences, FiniteSets, TLC

VARIABLES
    cpu,      \* struct CPU: the registers and extra_cycles
    bus,      \* struct Bus: cpu_vram, prg_rom, cycle
    ppu,      \* struct NesPPU
    fault,    \* "none", or the panic that ended the process
    frames,   \* how many times Bus.tick has invoked gameloop_callback
    build,    \* "debug" (overflow checks on) or "release" (wrapping)
    pos,      \* position in CPU::run_with_callback: "poll", "fetch" or "host"
    halted,   \* run_with_callback has returned
    last,     \* the most recent operation: its name, arguments and result
    calls,    \* the JSRs not yet returned from: where each was, and SP before it
    prev,     \* the instruction run last with no NMI since: its opcode, A, P and SP
              \* before it, and the opcode run before it
    ops,      \* how many times the owner of the Bus has used the PPU data port
              \* or drawn on the Frame
    frame     \* Frame.data of the Frame that main owns and render draws on

vars == <<cpu, bus, ppu, fault, frames, build, pos, halted, last, calls, prev, ops,
          frame>>

----------------------------------------------------------------------------
(* Bounds of the model.                                                    *)

\* The timing specification stops ticking once Bus.cycle would pass this
\* (a frame is 341 * 262 dots, 29781 CPU cycles).
MaxBusCycle == 29800

\* The run loop is followed until Bus.cycle has reached this.
MaxRunCycle == 4000

----------------------------------------------------------------------------
(* Bit arithmetic on unsigned integers.                                    *)

RECURSIVE BitAnd(_, _)
BitAnd(x, y) ==
    IF x = 0 \/ y = 0 THEN 0
    ELSE (x % 2) * (y % 2) + 2 * BitAnd(x \div 2, y \div 2)

RECURSIVE BitOr(_, _)
BitOr(x, y) ==
    IF x = 0 THEN y
    ELSE IF y = 0 THEN x
    ELSE (IF x % 2 = 1 \/ y % 2 = 1 THEN 1 ELSE 0) + 2 * BitOr(x \div 2, y \div 2)

RECURSIVE BitXor(_, _)
BitXor(x, y) ==
    IF x = 0 THEN y
    ELSE IF y = 0 THEN x
    ELSE ((x + y) % 2) + 2 * BitXor(x \div 2, y \div 2)

\* flags.contains(bit) of the bitflags crate, for a one-bit mask.
Contains(flags, bit) == (flags \div bit) % 2 = 1
\* flags.insert(bit) / flags.remove(bit), for a one-bit mask.
Insert(flags, bit) == IF Contains(flags, bit) THEN flags ELSE flags + bit
Remove(flags, bit) == IF Contains(flags, bit) THEN flags - bit ELSE flags
\* flags.set(bit, on)
SetBit(flags, bit, on) == IF on THEN Insert(flags, bit) ELSE Remove(flags, bit)

Byte == 0..255
Hi(w) == (w \div 256) % 256
Lo(w) == w % 256
Word(hi, lo) == hi * 256 + lo

\* Option<u8>
None == << >>
Some(v) == <<v>>

\* A zero-initialised array, kept sparse: only the cells written so far.
ZeroArray == [i \in {} |-> 0]
Peek(arr, i) == IF i \in DOMAIN arr THEN arr[i] ELSE 0
Poke(arr, i, v) == [j \in (DOMAIN arr) \cup {i} |-> IF j = i THEN v ELSE arr[j]]

\* let x = e; ...: the value bound once and handed on.
With(x, F(_)) == F(x)

\* The whole machine as one value, as the operators below thread it.
Machine == [cpu |-> cpu, bus |-> bus, ppu |-> ppu, fault |-> fault,
            frames |-> frames, build |-> build]

\* A panic: the first one ends the process, so a later one changes nothing.
Panic(m, what) == IF m.fault = "none" THEN [m EXCEPT !.fault = what] ELSE m
Ok(m) == m.fault = "none"

\* A checked u16 or u8 addition or multiplication: a debug build panics on
\* overflow ("attempt to add with overflow"), a release build wraps.
Checked(m, value, modulus) ==
    IF value < modulus THEN [m |-> m, v |-> value]
    ELSE IF m.build = "debug" THEN [m |-> Panic(m, "overflow"), v |-> value % modulus]
    ELSE [m |-> m, v |-> value % modulus]

----------------------------------------------------------------------------
(* control.rs, status.rs, mask.rs: the register bit sets.                  *)

VRAM_ADDR_INCREMENT == \h04
BACKGROUND_PATTERN_ADDR == \h10
GENERATE_NMI == \h80

SPRITE_OVERFLOW_FLAG == \h20
SPRITE_ZERO_HIT == \h40
VBLANK_STARTED == \h80

\* ControlRegister::vram_addr_increment
vram_addr_increment(ctrl) ==
    IF ~Contains(ctrl, VRAM_ADDR_INCREMENT) THEN 1 ELSE 32

\* ControlRegister::update: from_bits_truncate, and all eight bits are flags.
ctrl_update(ctrl, data) == data

\* ControlRegister::generate_vblank_status: reports the NMI-enable bit and
\* sets it.
generate_vblank_status(ctrl) ==
    [ctrl |-> Insert(ctrl, GENERATE_NMI), ret |-> Contains(ctrl, GENERATE_NMI)]

\* ControlRegister::bknd_pattern_addr
bknd_pattern_addr(ctrl) ==
    IF Contains(ctrl, BACKGROUND_PATTERN_ADDR) THEN \h1000 ELSE 0

\* StatusRegister: from_bits_truncate keeps the three declared flags.
StatusTruncate(bits) == (bits \div 32) * 32

\* StatusRegister::set_start_vblank
set_start_vblank(st) == Insert(st, VBLANK_STARTED)

\* StatusRegister::set_end_vblank
set_end_vblank(st) == Remove(st, VBLANK_STARTED)

\* MaskRegister::update builds a register from data and drops it.
mask_update(mask, data) == mask

----------------------------------------------------------------------------
(* ppu.rs: AddrRegister.                                                   *)

AddrRegister_new == [value |-> <<0, 0>>, hi_ptr |-> TRUE]

addr_get(a) == Word(a.value[1], a.value[2])

addr_set(a, data) == [a EXCEPT !.value = <<Hi(data), Lo(data)>>]

\* if self.get() > 0x3fff { self.set(self.get() & 0b11_11111_1111_1111) }: the
\* literal has fifteen one bits, 0x7FFF, so only bit 15 is cleared.
addr_mask(a) ==
    IF addr_get(a) > \h3FFF THEN addr_set(a, BitAnd(addr_get(a), \h7FFF)) ELSE a

addr_update(a, data) ==
    LET a1 == IF a.hi_ptr THEN [a EXCEPT !.value = <<data, a.value[2]>>]
              ELSE [a EXCEPT !.value = <<a.value[1], data>>]
        a2 == addr_mask(a1)
    IN  [a2 EXCEPT !.hi_ptr = ~a.hi_ptr]

addr_increment(a, inc) ==
    LET lo  == a.value[2]
        nlo == (lo + inc) % 256
        nhi == IF lo > nlo THEN (a.value[1] + 1) % 256 ELSE a.value[1]
    IN  addr_mask([a EXCEPT !.value = <<nhi, nlo>>])

\* A reset_latch that leaves the latch where it is.
addr_reset_latch_keep(a) == a

addr_reset_latch(a) == [a EXCEPT !.hi_ptr = TRUE]

----------------------------------------------------------------------------
(* scroll.rs is not among the sources: ScrollRegister after the            *)
(* specification's "two sequential writes (X then Y), toggled by a latch". *)

ScrollRegister_new == [scroll_x |-> 0, scroll_y |-> 0, latch |-> FALSE]

scroll_write(s, data) ==
    IF ~s.latch THEN [s EXCEPT !.scroll_x = data, !.latch = TRUE]
    ELSE [s EXCEPT !.scroll_y = data, !.latch = FALSE]

scroll_reset_latch(s) == [s EXCEPT !.latch = FALSE]

----------------------------------------------------------------------------
(* ppu.rs: NesPPU.                                                         *)

NesPPU_new(chr_rom, mirroring) ==
    [chr_rom |-> chr_rom, mirroring |-> mirroring,
     vram |-> ZeroArray, oam_addr |-> 0, oam_data |-> ZeroArray,
     palette_table |-> ZeroArray, addr |-> AddrRegister_new, ctrl |-> 0,
     mask |-> 0, scroll |-> ScrollRegister_new, status |-> 0,
     internal_data_buf |-> 0, scanline |-> 0, cycle |-> 0,
     nmi_interrupt |-> None]

\* A tick that reports the frame but lets the scanline counter run on.
ppu_tick_no_wrap(m, cycle) ==
    LET c1 == m.ppu.cycle + cycle IN
    IF c1 < 341 THEN [m |-> [m EXCEPT !.ppu.cycle = c1], ret |-> FALSE]
    ELSE
      LET sl == m.ppu.scanline + 1 IN
      With([m EXCEPT !.ppu.cycle = c1 - 341, !.ppu.scanline = sl], LAMBDA m1 :
      With(generate_vblank_status(m1.ppu.ctrl), LAMBDA g :
      With(IF sl < 241 THEN m1
           ELSE IF ~g.ret THEN [m1 EXCEPT !.ppu.ctrl = g.ctrl]
           ELSE Panic([m1 EXCEPT !.ppu.ctrl = g.ctrl,
                                 !.ppu.status = Insert(@, VBLANK_STARTED)],
                      "todo_nmi"), LAMBDA m2 :
        IF Ok(m2) /\ sl >= 262
        THEN [m |-> [m2 EXCEPT !.ppu.status = Remove(@, VBLANK_STARTED)],
              ret |-> TRUE]
        ELSE [m |-> m2, ret |-> FALSE])))

\* NesPPU::tick.  ret is the frame-complete flag.
ppu_tick(m, cycle) ==
    LET c1 == m.ppu.cycle + cycle IN
    IF c1 < 341 THEN [m |-> [m EXCEPT !.ppu.cycle = c1], ret |-> FALSE]
    ELSE
      LET sl == m.ppu.scanline + 1 IN
      With([m EXCEPT !.ppu.cycle = c1 - 341, !.ppu.scanline = sl], LAMBDA m1 :
      With(generate_vblank_status(m1.ppu.ctrl), LAMBDA g :
      With(IF sl < 241 THEN m1
           ELSE IF ~g.ret THEN [m1 EXCEPT !.ppu.ctrl = g.ctrl]
           ELSE \* status.set(VBLANK_STARTED, true); todo!(...)
                Panic([m1 EXCEPT !.ppu.ctrl = g.ctrl,
                                 !.ppu.status = Insert(@, VBLANK_STARTED)],
                      "todo_nmi"), LAMBDA m2 :
        IF Ok(m2) /\ sl >= 262
        THEN [m |-> [m2 EXCEPT !.ppu.scanline = 0,
                               !.ppu.status = Remove(@, VBLANK_STARTED)],
              ret |-> TRUE]
        ELSE [m |-> m2, ret |-> FALSE])))

\* NesPPU::mirror_vram_addr
\* A mapper that handles every logical table above 0 alike.
mirror_vram_addr_fold(mirroring, addr) ==
    LET vram_index == BitAnd(addr, \h2FFF) - \h2000
    IN  IF vram_index >= \h400 THEN \h400 + (vram_index % \h400) ELSE vram_index

mirror_vram_addr(mirroring, addr) ==
    LET mirrored_vram == BitAnd(addr, \h2FFF)
        vram_index == mirrored_vram - \h2000
        name_table == vram_index \div \h400
    IN  CASE mirroring = "Vertical" /\ name_table \in {2, 3} -> vram_index - \h800
          [] mirroring = "Horizontal" /\ name_table \in {1, 2} -> vram_index - \h400
          [] mirroring = "Horizontal" /\ name_table = 3 -> vram_index - \h800
          [] OTHER -> vram_index

\* NesPPU::increment_vrar_addr
increment_vrar_addr(p) ==
    [p EXCEPT !.addr = addr_increment(@, vram_addr_increment(p.ctrl))]

\* A CTRL write that latches on the level of the enable bit, not its rise.
write_to_ctrl_level(p, value) ==
    LET p1 == [p EXCEPT !.ctrl = ctrl_update(@, value)]
    IN  IF Contains(p1.ctrl, GENERATE_NMI) /\ Contains(p1.status, VBLANK_STARTED)
        THEN [p1 EXCEPT !.nmi_interrupt = Some(1)]
        ELSE p1

\* NesPPU::write_to_ctrl
write_to_ctrl(p, value) ==
    LET before_nmi_status == Contains(p.ctrl, GENERATE_NMI)
        p1 == [p EXCEPT !.ctrl = ctrl_update(@, value)]
    IN  IF /\ ~before_nmi_status
           /\ Contains(p1.ctrl, GENERATE_NMI)
           /\ Contains(p1.status, VBLANK_STARTED)
        THEN [p1 EXCEPT !.nmi_interrupt = Some(1)]
        ELSE p1

\* NesPPU::write_to_mask
write_to_mask(p, value) == [p EXCEPT !.mask = mask_update(@, value)]

\* NesPPU::read_status
read_status(p) ==
    [p |-> [p EXCEPT !.status = Remove(@, VBLANK_STARTED),
                     !.addr = addr_reset_latch(@),
                     !.scroll = scroll_reset_latch(@)],
     v |-> p.status]

\* NesPPU::write_to_oam_addr, write_to_oam_data, read_oam_data
write_to_oam_addr(p, value) == [p EXCEPT !.oam_addr = value]

write_to_oam_data(p, value) ==
    [p EXCEPT !.oam_data = Poke(@, p.oam_addr, value),
              !.oam_addr = (p.oam_addr + 1) % 256]

read_oam_data(p) == Peek(p.oam_data, p.oam_addr)

\* NesPPU::write_oam_dma: the 256 bytes of `value` stored from oam_addr on,
\* oam_addr wrapping in eight bits and ending where it began.
write_oam_dma(p, value) ==
    [p EXCEPT !.oam_data =
        [j \in 0..255 |-> Peek(value, (j + 256 - p.oam_addr) % 256)]]

\* NesPPU::write_to_scroll, write_to_ppu_addr
write_to_scroll(p, value) == [p EXCEPT !.scroll = scroll_write(@, value)]

write_to_ppu_addr(p, value) == [p EXCEPT !.addr = addr_update(@, value)]

\* NesPPU::write_to_data.  vram has 2048 cells: a larger index panics.
write_to_data(m, value) ==
    LET p    == m.ppu
        addr == addr_get(p.addr)
        idx  == mirror_vram_addr(p.mirroring, addr)
        m1   == CASE addr \in 0..\h1FFF -> m
                  [] addr \in \h2000..\h2FFF ->
                        IF idx < 2048 THEN [m EXCEPT !.ppu.vram = Poke(@, idx, value)]
                        ELSE Panic(m, "index_out_of_bounds")
                  [] addr \in \h3000..\h3EFF -> Panic(m, "unimplemented")
                  [] addr \in {\h3F10, \h3F14, \h3F18, \h3F1C} ->
                        [m EXCEPT !.ppu.palette_table = Poke(@, addr - \h10 - \h3F00, value)]
                  [] addr \in \h3F00..\h3FFF ->
                        IF addr - \h3F00 < 32
                        THEN [m EXCEPT !.ppu.palette_table = Poke(@, addr - \h3F00, value)]
                        ELSE Panic(m, "index_out_of_bounds")
                  [] OTHER -> Panic(m, "unexpected_access")
    IN  IF Ok(m1) THEN [m1 EXCEPT !.ppu = increment_vrar_addr(@)] ELSE m1

\* A read that returns the byte at the address at once and keeps no buffer.
read_data_unbuffered(m) ==
    LET p    == m.ppu
        addr == addr_get(p.addr)
        m1   == [m EXCEPT !.ppu = increment_vrar_addr(@)]
        idx  == mirror_vram_addr(p.mirroring, addr)
    IN  CASE addr \in 0..\h1FFF /\ addr < p.chr_rom.len ->
               [m |-> m1, v |-> Peek(p.chr_rom.bytes, addr)]
          [] addr \in \h2000..\h3EFF /\ idx < 2048 ->
               [m |-> m1, v |-> Peek(p.vram, idx)]
          [] addr \in \h3F00..\h3F1F ->
               [m |-> m1, v |-> Peek(p.palette_table, addr - \h3F00)]
          [] OTHER -> [m |-> Panic(m1, "index_out_of_bounds"), v |-> 0]

\* NesPPU::read_data.  chr_rom is [len, bytes].
read_data(m) ==
    LET p    == m.ppu
        addr == addr_get(p.addr)
        m1   == [m EXCEPT !.ppu = increment_vrar_addr(@)]
        idx  == mirror_vram_addr(p.mirroring, addr)
    IN  CASE addr \in 0..\h1FFF ->
               IF addr < p.chr_rom.len
               THEN [m |-> [m1 EXCEPT !.ppu.internal_data_buf = Peek(p.chr_rom.bytes, addr)],
                     v |-> p.internal_data_buf]
               ELSE [m |-> Panic(m1, "index_out_of_bounds"), v |-> 0]
          [] addr \in \h2000..\h3EFF ->
               IF idx < 2048
               THEN [m |-> [m1 EXCEPT !.ppu.internal_data_buf = Peek(p.vram, idx)],
                     v |-> p.internal_data_buf]
               ELSE [m |-> Panic(m1, "index_out_of_bounds"), v |-> 0]
          [] addr \in \h3F00..\h3FFF ->
               IF addr - \h3F00 < 32
               THEN [m |-> m1, v |-> Peek(p.palette_table, addr - \h3F00)]
               ELSE [m |-> Panic(m1, "index_out_of_bounds"), v |-> 0]
          [] OTHER -> [m |-> Panic(m1, "unexpected_access"), v |-> 0]

----------------------------------------------------------------------------
(* bus.rs: Bus.                                                            *)

Bus_new(prg_rom) == [cpu_vram |-> ZeroArray, prg_rom |-> prg_rom, cycle |-> 0]

\* Bus::tick.  The parameter is a u8 and cycles * 3 is computed in u8.
bus_tick(m, cycles) ==
    IF ~Ok(m) THEN m
    ELSE
      With(Checked([m EXCEPT !.bus.cycle = @ + cycles], cycles * 3, 256), LAMBDA c3 :
        IF ~Ok(c3.m) THEN c3.m
        ELSE With(ppu_tick(c3.m, c3.v), LAMBDA t :
               IF t.ret THEN [t.m EXCEPT !.frames = @ + 1] ELSE t.m))

\* A poll that reads the request and leaves it in place.
poll_nmi_status_peek(m) == [m |-> m, v |-> m.ppu.nmi_interrupt]

\* Bus::poll_nmi_status: Option::take
poll_nmi_status(m) ==
    [m |-> [m EXCEPT !.ppu.nmi_interrupt = None], v |-> m.ppu.nmi_interrupt]

\* Bus::read_prg_rom.  prg_rom is [len, bytes].
read_prg_rom(m, addr) ==
    LET a0 == addr - \h8000
        a1 == IF m.bus.prg_rom.len = \h4000 /\ a0 >= \h4000 THEN a0 % \h4000 ELSE a0
    IN  IF a1 < m.bus.prg_rom.len
        THEN [m |-> m, v |-> Peek(m.bus.prg_rom.bytes, a1)]
        ELSE [m |-> Panic(m, "index_out_of_bounds"), v |-> 0]

\* The mirror arms of mem_read and mem_write: addr & 0b00100000_00000111.
mirror_down_register(addr) ==
    IF addr \in \h2008..\h3FFF THEN BitAnd(addr, \h2007) ELSE addr

\* RAM addressed without the mirror mask.
mirror_down_ram_none(addr) == addr

\* The RAM arms: addr & 0b00000111_11111111.
mirror_down_ram(addr) == BitAnd(addr, \h07FF)

\* A read of a write-only register that returns 0 and goes on.
read_write_only_zero(m) == [m |-> m, v |-> 0]

\* The arm of mem_read for 0x2000, 0x2001, 0x2003, 0x2005, 0x2006, 0x4014.
read_write_only(m) == [m |-> Panic(m, "read_write_only"), v |-> 0]

\* A write above 0x8000 that lands in the PRG ROM bytes.
rom_write_store(m, addr, data) ==
    [m EXCEPT !.bus.prg_rom.bytes = Poke(@, (addr - \h8000) % m.bus.prg_rom.len, data)]

\* The arm of mem_write for 0x8000..=0xFFFF.
rom_write(m, addr, data) == Panic(m, "write_to_rom")

\* Memory::mem_read for Bus
mem_read(m, addr0) ==
    LET addr == mirror_down_register(addr0) IN
    IF ~Ok(m) THEN [m |-> m, v |-> 0]
    ELSE CASE addr \in 0..\h1FFF ->
                [m |-> m, v |-> Peek(m.bus.cpu_vram, mirror_down_ram(addr))]
           [] addr \in {\h2000, \h2001, \h2003, \h2005, \h2006, \h4014} ->
                read_write_only(m)
           [] addr = \h2002 ->
                LET r == read_status(m.ppu) IN [m |-> [m EXCEPT !.ppu = r.p], v |-> r.v]
           [] addr = \h2004 -> [m |-> m, v |-> read_oam_data(m.ppu)]
           [] addr = \h2007 -> read_data(m)
           [] addr \in \h4000..\h4017 -> [m |-> m, v |-> 0]
           [] addr \in \h8000..\hFFFF -> read_prg_rom(m, addr)
           [] OTHER -> [m |-> m, v |-> 0]

\* Memory::mem_write for Bus
mem_write(m, addr0, data) ==
    LET addr == mirror_down_register(addr0) IN
    IF ~Ok(m) THEN m
    ELSE CASE addr \in 0..\h1FFF ->
                [m EXCEPT !.bus.cpu_vram = Poke(@, mirror_down_ram(addr), data)]
           [] addr = \h2000 -> [m EXCEPT !.ppu = write_to_ctrl(@, data)]
           [] addr = \h2001 -> [m EXCEPT !.ppu = write_to_mask(@, data)]
           [] addr = \h2002 -> Panic(m, "write_read_only")
           [] addr = \h2003 -> [m EXCEPT !.ppu = write_to_oam_addr(@, data)]
           [] addr = \h2004 -> [m EXCEPT !.ppu = write_to_oam_data(@, data)]
           [] addr = \h2005 -> [m EXCEPT !.ppu = write_to_scroll(@, data)]
           [] addr = \h2006 -> [m EXCEPT !.ppu = write_to_ppu_addr(@, data)]
           [] addr = \h2007 -> write_to_data(m, data)
           [] addr \in \h4000..\h4017 -> m
           [] addr \in \h8000..\hFFFF -> rom_write(m, addr, data)
           [] OTHER -> m

\* Memory::mem_read_u16: pos + 1 is a checked u16 addition.
mem_read_u16(m, p) ==
    With(mem_read(m, p), LAMBDA lo :
    With(Checked(lo.m, p + 1, 65536), LAMBDA nx :
    With(mem_read(nx.m, nx.v), LAMBDA hi :
      [m |-> hi.m, v |-> Word(hi.v, lo.v)])))

\* Memory::mem_write_u16
mem_write_u16(m, p, data) ==
    With(Checked(mem_write(m, p, Lo(data)), p + 1, 65536), LAMBDA nx :
      mem_write(nx.m, nx.v, Hi(data)))

----------------------------------------------------------------------------
(* cpu.rs: CPU.                                                            *)

CARRY == \h01
ZERO == \h02
INTERRUPT_DISABLE == \h04
DECIMAL == \h08
BREAK == \h10
RESERVED == \h20
OVERFLOW == \h40
NEGATIVE == \h80

INITIAL_STATUS == \h24
STACK_TOP == \h0100
INITIAL_STACK == \hFD

\* CPU::new
CPU_new ==
    [register_a |-> 0, register_x |-> 0, register_y |-> 0,
     status |-> INITIAL_STATUS, program_counter |-> \h8000,
     stack_pointer |-> INITIAL_STACK, extra_cycles |-> 0]

\* CPU::load: the program's bytes written at 0x0000 + i through the Bus, for i
\* below program.len() as u16, then
\* 0x8600 written at 0xFFFC.
RECURSIVE load_bytes(_, _, _)
load_bytes(m, program, i) ==
    IF i >= Len(program) % 65536 THEN m
    ELSE load_bytes(mem_write(m, \h0000 + i, program[i + 1]), program, i + 1)

load(m, program) == mem_write_u16(load_bytes(m, program, 0), \hFFFC, \h8600)

\* CPU::reset
reset(m) ==
    With(mem_read_u16([m EXCEPT !.cpu.register_a = 0, !.cpu.register_x = 0,
                                !.cpu.register_y = 0,
                                !.cpu.stack_pointer = INITIAL_STACK,
                                !.cpu.status = INITIAL_STATUS], \hFFFC),
         LAMBDA r : [r.m EXCEPT !.cpu.program_counter = r.v])

\* CPU::update_zero_and_negative_flags, on the status byte.
update_zero_and_negative_flags(st, result) ==
    SetBit(SetBit(st, ZERO, result = 0), NEGATIVE, result \div 128 = 1)

SetZN(m, result) ==
    [m EXCEPT !.cpu.status = update_zero_and_negative_flags(@, result)]

AddExtra(m, crossed) ==
    IF crossed THEN [m EXCEPT !.cpu.extra_cycles = @ + 1] ELSE m

\* The draft push: `let _ = self.stack_pointer.wrapping_sub(1)` moves nothing.
stack_push_no_decrement(m, data) ==
    mem_write(m, STACK_TOP + m.cpu.stack_pointer, data)

\* CPU::stack_push
stack_push(m, data) ==
    LET addr == STACK_TOP + m.cpu.stack_pointer
        m1   == mem_write(m, addr, data)
    IN  [m1 EXCEPT !.cpu.stack_pointer = (@ + 255) % 256]

\* A pop that reads the cell under the stack pointer before moving it.
stack_pop_read_first(m) ==
    With(mem_read(m, STACK_TOP + m.cpu.stack_pointer), LAMBDA r :
      [r EXCEPT !.m.cpu.stack_pointer = (@ + 1) % 256])

\* CPU::stack_pop
stack_pop(m) ==
    LET sp == (m.cpu.stack_pointer + 1) % 256
        m1 == [m EXCEPT !.cpu.stack_pointer = sp]
    IN  mem_read(m1, STACK_TOP + sp)

\* CPU::stack_push_u16: high byte first.
stack_push_u16(m, data) == stack_push(stack_push(m, Hi(data)), Lo(data))

\* CPU::stack_pop_u16
stack_pop_u16(m) ==
    With(stack_pop(m), LAMBDA lo :
    With(stack_pop(lo.m), LAMBDA hi :
      [m |-> hi.m, v |-> Word(hi.v, lo.v)]))

\* CPU::is_page_crossed compares the page of addr1 with the low byte of addr2.
is_page_crossed(addr1, addr2) == BitAnd(addr1, \hFF00) # BitAnd(addr2, \h00FF)

\* An addition of a zero-page address and an index that carries into page 1.
wrapping_add_carrying(byte, index) == byte + index

\* u8::wrapping_add, as get_absolute_address applies it to a zero-page
\* address or pointer.
wrapping_add(byte, index) == (byte + index) % 256

\* CPU::get_absolute_address.  The result is [m, addr, crossed].
get_absolute_address(m, mode, addr) ==
    CASE mode = "ZeroPage" ->
           With(mem_read(m, addr), LAMBDA r :
             [m |-> r.m, addr |-> r.v, crossed |-> FALSE])
      [] mode = "Absolute" ->
           With(mem_read_u16(m, addr), LAMBDA r :
             [m |-> r.m, addr |-> r.v, crossed |-> FALSE])
      [] mode = "ZeroPage_X" ->
           With(mem_read(m, addr), LAMBDA r :
             [m |-> r.m, addr |-> wrapping_add(r.v, m.cpu.register_x), crossed |-> FALSE])
      [] mode = "ZeroPage_Y" ->
           With(mem_read(m, addr), LAMBDA r :
             [m |-> r.m, addr |-> wrapping_add(r.v, m.cpu.register_y), crossed |-> FALSE])
      [] mode = "Absolute_X" ->
           With(mem_read_u16(m, addr), LAMBDA r :
             LET a == (r.v + m.cpu.register_x) % 65536
             IN  [m |-> r.m, addr |-> a, crossed |-> is_page_crossed(r.v, a)])
      [] mode = "Absolute_Y" ->
           With(mem_read_u16(m, addr), LAMBDA r :
             LET a == (r.v + m.cpu.register_y) % 65536
             IN  [m |-> r.m, addr |-> a, crossed |-> is_page_crossed(r.v, a)])
      [] mode = "Indirect_X" ->
           With(mem_read(m, addr), LAMBDA base :
             LET ptr == wrapping_add(base.v, m.cpu.register_x) IN
             With(mem_read(base.m, ptr), LAMBDA lo :
             With(mem_read(lo.m, wrapping_add(ptr, 1)), LAMBDA hi :
               [m |-> hi.m, addr |-> Word(hi.v, lo.v), crossed |-> FALSE])))
      [] mode = "Indirect_Y" ->
           With(mem_read(m, addr), LAMBDA base :
           With(mem_read(base.m, base.v), LAMBDA lo :
           With(mem_read(lo.m, wrapping_add(base.v, 1)), LAMBDA hi :
             LET deref_base == Word(hi.v, lo.v)
                 deref == (deref_base + m.cpu.register_y) % 65536
             IN  [m |-> hi.m, addr |-> deref,
                  crossed |-> is_page_crossed(deref_base, deref)])))
      [] OTHER -> [m |-> Panic(m, "mode_not_supported"), addr |-> 0, crossed |-> FALSE]

\* CPU::get_operand_address
get_operand_address(m, mode) ==
    IF mode = "Immediate"
    THEN [m |-> m, addr |-> m.cpu.program_counter, crossed |-> FALSE]
    ELSE get_absolute_address(m, mode, m.cpu.program_counter)

\* The operand fetch that opens most handlers: the address, then the byte.
Operand(m, mode) ==
    With(get_operand_address(m, mode), LAMBDA o :
    With(mem_read(o.m, o.addr), LAMBDA r :
      [m |-> r.m, addr |-> o.addr, crossed |-> o.crossed, v |-> r.v]))

\* CPU::set_register_a_with_flags
set_register_a_with_flags(m, set_data) ==
    LET a      == m.cpu.register_a
        carry  == IF Contains(m.cpu.status, CARRY) THEN 1 ELSE 0
        overable_result == a + set_data + carry
        result == overable_result % 256
        st1    == SetBit(m.cpu.status, CARRY, overable_result > \hFF)
        st2    == SetBit(st1, OVERFLOW,
                    BitAnd(BitAnd(BitXor(result, a), BitXor(result, set_data)), \h80) # 0)
    IN  [m EXCEPT !.cpu.register_a = result,
                  !.cpu.status = update_zero_and_negative_flags(st2, result)]

\* A compare: CARRY iff reg >= data, Z and N from reg - data.
Compare(m, reg, data) ==
    [m EXCEPT !.cpu.status =
        update_zero_and_negative_flags(SetBit(@, CARRY, reg >= data),
                                       (reg + 256 - data) % 256)]

\* An ADC that adds without the carry coming in.
adc_without_carry_in(m, mode) ==
    With(Operand(m, mode), LAMBDA o :
      AddExtra(set_register_a_with_flags(
                 [o.m EXCEPT !.cpu.status = Remove(@, CARRY)], o.v), o.crossed))

adc(m, mode) ==
    With(Operand(m, mode), LAMBDA o :
      AddExtra(set_register_a_with_flags(o.m, o.v), o.crossed))

and(m, mode) ==
    With(Operand(m, mode), LAMBDA o :
    LET a == BitAnd(m.cpu.register_a, o.v)
    IN  AddExtra(SetZN([o.m EXCEPT !.cpu.register_a = a], a), o.crossed))

\* The read-modify-write handlers return the machine and the new byte.
asl(m, mode) ==
    With(Operand(m, mode), LAMBDA o :
    LET new_data == (o.v * 2) % 256
        m1 == [o.m EXCEPT !.cpu.status = SetBit(@, CARRY, o.v \div 128 = 1)]
        m2 == mem_write(m1, o.addr, new_data)
    IN  [m |-> SetZN(m2, new_data), v |-> new_data])

asl_accumulator(m) ==
    LET a == m.cpu.register_a
        r == (a * 2) % 256
    IN  SetZN([m EXCEPT !.cpu.status = SetBit(@, CARRY, a \div 128 = 1),
                        !.cpu.register_a = r], r)

bit(m, mode) ==
    With(Operand(m, mode), LAMBDA o :
    LET st == SetBit(o.m.cpu.status, ZERO, BitAnd(m.cpu.register_a, o.v) = 0)
        v  == BitAnd(o.v, NEGATIVE + OVERFLOW)
    IN  [o.m EXCEPT !.cpu.status = BitOr(Remove(Remove(st, NEGATIVE), OVERFLOW), v)])

\* A branch that compares the destination with the page of its own operand.
branch_page_of_operand(m, condition) ==
    IF ~condition THEN m
    ELSE
      LET pc == m.cpu.program_counter IN
      With(mem_read([m EXCEPT !.cpu.extra_cycles = @ + 1], pc), LAMBDA r :
      LET jump == IF r.v >= 128 THEN r.v + 65280 ELSE r.v
          jump_addr == (pc + 1 + jump) % 65536
      IN  [r.m EXCEPT !.cpu.extra_cycles =
                          IF BitAnd(pc, \hFF00) # BitAnd(jump_addr, \hFF00)
                          THEN @ + 1 ELSE @,
                      !.cpu.program_counter = jump_addr])

\* CPU::branch
branch(m, condition) ==
    IF ~condition THEN m
    ELSE
      LET pc == m.cpu.program_counter IN
      With(mem_read([m EXCEPT !.cpu.extra_cycles = @ + 1], pc), LAMBDA r :
      LET jump == IF r.v >= 128 THEN r.v + 65280 ELSE r.v   \* i8 as u16
          next == (pc + 1) % 65536
          jump_addr == (next + jump) % 65536
      IN  [r.m EXCEPT !.cpu.extra_cycles =
                          IF BitAnd(next, \hFF00) # BitAnd(jump_addr, \hFF00)
                          THEN @ + 1 ELSE @,
                      !.cpu.program_counter = jump_addr])

cmp(m, mode) ==
    With(Operand(m, mode), LAMBDA o :
      AddExtra(Compare(o.m, m.cpu.register_a, o.v), o.crossed))

cpx(m, mode) ==
    With(Operand(m, mode), LAMBDA o : Compare(o.m, m.cpu.register_x, o.v))

cpy(m, mode) ==
    With(Operand(m, mode), LAMBDA o : Compare(o.m, m.cpu.register_y, o.v))

dec(m, mode) ==
    With(Operand(m, mode), LAMBDA o :
    LET new_data == (o.v + 255) % 256
    IN  SetZN(mem_write(o.m, o.addr, new_data), new_data))

dex(m) ==
    LET r == (m.cpu.register_x + 255) % 256
    IN  SetZN([m EXCEPT !.cpu.register_x = r], r)

dey(m) ==
    LET r == (m.cpu.register_y + 255) % 256
    IN  SetZN([m EXCEPT !.cpu.register_y = r], r)

eor(m, mode) ==
    With(Operand(m, mode), LAMBDA o :
    LET a == BitXor(m.cpu.register_a, o.v)
    IN  AddExtra(SetZN([o.m EXCEPT !.cpu.register_a = a], a), o.crossed))

inc(m, mode) ==
    With(Operand(m, mode), LAMBDA o :
    LET new_data == (o.v + 1) % 256
    IN  SetZN(mem_write(o.m, o.addr, new_data), new_data))

\* An INX that stops at 0xFF instead of wrapping to 0.
inx_saturating(m) ==
    LET r == IF m.cpu.register_x = 255 THEN 255 ELSE m.cpu.register_x + 1
    IN  SetZN([m EXCEPT !.cpu.register_x = r], r)

inx(m) ==
    LET r == (m.cpu.register_x + 1) % 256
    IN  SetZN([m EXCEPT !.cpu.register_x = r], r)

iny(m) ==
    LET r == (m.cpu.register_y + 1) % 256
    IN  SetZN([m EXCEPT !.cpu.register_y = r], r)

\* CPU::jmp, the indirect jump with the page-boundary behaviour.
jmp(m) ==
    With(mem_read_u16(m, m.cpu.program_counter), LAMBDA a :
      IF a.v % 256 = \hFF
      THEN With(mem_read(a.m, a.v), LAMBDA lo :
           With(mem_read(lo.m, BitAnd(a.v, \hFF00)), LAMBDA hi :
             [hi.m EXCEPT !.cpu.program_counter = Word(hi.v, lo.v)]))
      ELSE With(mem_read_u16(a.m, a.v), LAMBDA w :
             [w.m EXCEPT !.cpu.program_counter = w.v]))

jmp_absolute(m) ==
    With(mem_read_u16(m, m.cpu.program_counter), LAMBDA a :
      [a.m EXCEPT !.cpu.program_counter = a.v])

\* A JSR that pushes the address of its first operand byte.
jsr_first_operand(m) ==
    With(mem_read_u16(stack_push_u16(m, m.cpu.program_counter),
                      m.cpu.program_counter), LAMBDA a :
      [a.m EXCEPT !.cpu.program_counter = a.v])

\* CPU::jsr: program_counter + 1 is a checked u16 addition.
jsr(m) ==
    With(Checked(m, m.cpu.program_counter + 1, 65536), LAMBDA pc :
    With(mem_read_u16(stack_push_u16(pc.m, pc.v), m.cpu.program_counter), LAMBDA a :
      [a.m EXCEPT !.cpu.program_counter = a.v]))

\* An LDA that loads A and leaves the flags alone.
lda_keep_flags(m, mode) ==
    With(Operand(m, mode), LAMBDA o :
      AddExtra([o.m EXCEPT !.cpu.register_a = o.v], o.crossed))

lda(m, mode) ==
    With(Operand(m, mode), LAMBDA o :
      AddExtra(SetZN([o.m EXCEPT !.cpu.register_a = o.v], o.v), o.crossed))

ldx(m, mode) ==
    With(Operand(m, mode), LAMBDA o :
      AddExtra(SetZN([o.m EXCEPT !.cpu.register_x = o.v], o.v), o.crossed))

ldy(m, mode) ==
    With(Operand(m, mode), LAMBDA o :
      AddExtra(SetZN([o.m EXCEPT !.cpu.register_y = o.v], o.v), o.crossed))

lsr(m, mode) ==
    With(Operand(m, mode), LAMBDA o :
    LET new_data == o.v \div 2
        m1 == [o.m EXCEPT !.cpu.status = SetBit(@, CARRY, o.v % 2 = 1)]
        m2 == mem_write(m1, o.addr, new_data)
    IN  [m |-> SetZN(m2, new_data), v |-> new_data])

lsr_accumulator(m) ==
    LET a == m.cpu.register_a
        r == a \div 2
    IN  SetZN([m EXCEPT !.cpu.status = SetBit(@, CARRY, a % 2 = 1),
                        !.cpu.register_a = r], r)

nop(m) == m

ora(m, mode) ==
    With(Operand(m, mode), LAMBDA o :
    LET a == BitOr(o.v, m.cpu.register_a)
    IN  AddExtra(SetZN([o.m EXCEPT !.cpu.register_a = a], a), o.crossed))

pha(m) == stack_push(m, m.cpu.register_a)

php(m) == stack_push(m, Insert(Insert(m.cpu.status, BREAK), RESERVED))

pla(m) ==
    With(stack_pop(m), LAMBDA r :
      SetZN([r.m EXCEPT !.cpu.register_a = r.v], r.v))

\* The pulled byte kept as it is.
pulled_status_raw(byte) == byte

\* The status byte as plp and rti keep it: BREAK removed, RESERVED inserted.
pulled_status(byte) == Insert(Remove(byte, BREAK), RESERVED)

plp(m) ==
    With(stack_pop(m), LAMBDA r :
      [r.m EXCEPT !.cpu.status = pulled_status(r.v)])

rol(m, mode) ==
    With(Operand(m, mode), LAMBDA o :
    LET carry == IF Contains(m.cpu.status, CARRY) THEN 1 ELSE 0
        data == ((o.v * 2) % 256) + carry
        m1 == [o.m EXCEPT !.cpu.status = SetBit(@, CARRY, o.v \div 128 = 1)]
        m2 == mem_write(m1, o.addr, data)
    IN  [m |-> SetZN(m2, data), v |-> data])

rol_accumulate(m) ==
    LET a == m.cpu.register_a
        carry == IF Contains(m.cpu.status, CARRY) THEN 1 ELSE 0
        data == ((a * 2) % 256) + carry
    IN  SetZN([m EXCEPT !.cpu.status = SetBit(@, CARRY, a \div 128 = 1),
                        !.cpu.register_a = data], data)

ror(m, mode) ==
    With(Operand(m, mode), LAMBDA o :
    LET carry == IF Contains(m.cpu.status, CARRY) THEN 1 ELSE 0
        data == (o.v \div 2) + carry * 128
        m1 == [o.m EXCEPT !.cpu.status = SetBit(@, CARRY, o.v % 2 = 1)]
        m2 == mem_write(m1, o.addr, data)
    IN  [m |-> SetZN(m2, data), v |-> data])

ror_accumulator(m) ==
    LET a == m.cpu.register_a
        carry == IF Contains(m.cpu.status, CARRY) THEN 1 ELSE 0
        data == (a \div 2) + carry * 128
    IN  SetZN([m EXCEPT !.cpu.status = SetBit(@, CARRY, a % 2 = 1),
                        !.cpu.register_a = data], data)

rti(m) ==
    With(stack_pop(m), LAMBDA r :
    With(stack_pop_u16([r.m EXCEPT !.cpu.status = pulled_status(r.v)]), LAMBDA pc :
      [pc.m EXCEPT !.cpu.program_counter = pc.v]))

\* CPU::rts: stack_pop_u16() + 1 is a checked u16 addition.
rts(m) ==
    With(stack_pop_u16(m), LAMBDA r :
    With(Checked(r.m, r.v + 1, 65536), LAMBDA pc :
      [pc.m EXCEPT !.cpu.program_counter = pc.v]))

\* An SBC that adds the two's complement of the operand.
sbc_twos_complement(m, mode) ==
    With(Operand(m, mode), LAMBDA o :
      AddExtra(set_register_a_with_flags(o.m, (256 - o.v) % 256), o.crossed))

\* CPU::sbc: (-(data as i16) - 1) as u8 is 255 - data.
sbc(m, mode) ==
    With(Operand(m, mode), LAMBDA o :
      AddExtra(set_register_a_with_flags(o.m, 255 - o.v), o.crossed))

sta(m, mode) ==
    With(get_operand_address(m, mode), LAMBDA o :
      mem_write(o.m, o.addr, m.cpu.register_a))

stx(m, mode) ==
    With(get_operand_address(m, mode), LAMBDA o :
      mem_write(o.m, o.addr, m.cpu.register_x))

sty(m, mode) ==
    With(get_operand_address(m, mode), LAMBDA o :
      mem_write(o.m, o.addr, m.cpu.register_y))

tax(m) == SetZN([m EXCEPT !.cpu.register_x = m.cpu.register_a], m.cpu.register_a)
tay(m) == SetZN([m EXCEPT !.cpu.register_y = m.cpu.register_a], m.cpu.register_a)
tsx(m) == SetZN([m EXCEPT !.cpu.register_x = m.cpu.stack_pointer], m.cpu.stack_pointer)
txa(m) == SetZN([m EXCEPT !.cpu.register_a = m.cpu.register_x], m.cpu.register_x)
txs(m) == [m EXCEPT !.cpu.stack_pointer = m.cpu.register_x]
tya(m) == SetZN([m EXCEPT !.cpu.register_a = m.cpu.register_y], m.cpu.register_y)

lax(m, mode) ==
    With(Operand(m, mode), LAMBDA o :
      SetZN([o.m EXCEPT !.cpu.register_a = o.v, !.cpu.register_x = o.v], o.v))

sax(m, mode) ==
    With(get_operand_address(m, mode), LAMBDA o :
      mem_write(o.m, o.addr, BitAnd(m.cpu.register_a, m.cpu.register_x)))

\* CPU::dcp only ever inserts CARRY.
dcp(m, mode) ==
    With(Operand(m, mode), LAMBDA o :
    LET new_data == (o.v + 255) % 256 IN
    With(mem_write(o.m, o.addr, new_data), LAMBDA m1 :
      SetZN(IF new_data <= m.cpu.register_a
            THEN [m1 EXCEPT !.cpu.status = Insert(@, CARRY)] ELSE m1,
            (m.cpu.register_a + 256 - new_data) % 256)))

\* CPU::isc: (-(data as i16) - 2) as u8 is (254 - data) mod 256.
isc(m, mode) ==
    With(Operand(m, mode), LAMBDA o :
    LET m1 == set_register_a_with_flags(o.m, (254 + 256 - o.v) % 256)
    IN  mem_write(m1, o.addr, (o.v + 1) % 256))

slo(m, mode) ==
    With(asl(m, mode), LAMBDA r :
    LET a == BitOr(r.m.cpu.register_a, r.v)
    IN  SetZN([r.m EXCEPT !.cpu.register_a = a], a))

rla(m, mode) ==
    With(rol(m, mode), LAMBDA r :
    LET a == BitAnd(r.m.cpu.register_a, r.v)
    IN  SetZN([r.m EXCEPT !.cpu.register_a = a], a))

sre(m, mode) ==
    With(lsr(m, mode), LAMBDA r :
    LET a == BitXor(r.m.cpu.register_a, r.v)
    IN  SetZN([r.m EXCEPT !.cpu.register_a = a], a))

rra(m, mode) ==
    With(ror(m, mode), LAMBDA r : set_register_a_with_flags(r.m, r.v))

bcc(m) == branch(m, ~Contains(m.cpu.status, CARRY))
bcs(m) == branch(m, Contains(m.cpu.status, CARRY))
beq(m) == branch(m, Contains(m.cpu.status, ZERO))
bmi(m) == branch(m, Contains(m.cpu.status, NEGATIVE))
bne(m) == branch(m, ~Contains(m.cpu.status, ZERO))
bpl(m) == branch(m, ~Contains(m.cpu.status, NEGATIVE))
bvc(m) == branch(m, ~Contains(m.cpu.status, OVERFLOW))
bvs(m) == branch(m, Contains(m.cpu.status, OVERFLOW))

clc(m) == [m EXCEPT !.cpu.status = Remove(@, CARRY)]
cld(m) == [m EXCEPT !.cpu.status = Remove(@, DECIMAL)]
cli(m) == [m EXCEPT !.cpu.status = Remove(@, INTERRUPT_DISABLE)]
clv(m) == [m EXCEPT !.cpu.status = Remove(@, OVERFLOW)]
sec(m) == [m EXCEPT !.cpu.status = Insert(@, CARRY)]
sed(m) == [m EXCEPT !.cpu.status = Insert(@, DECIMAL)]
sei(m) == [m EXCEPT !.cpu.status = Insert(@, INTERRUPT_DISABLE)]

----------------------------------------------------------------------------
(* opcode.rs: the table, as <<code, mnemonic, len, cycle, mode>>.          *)

CPU_OPS_CODES == {
    <<\h69, "ADC", 2, 2, "Immediate">>, <<\h65, "ADC", 2, 3, "ZeroPage">>,
    <<\h75, "ADC", 2, 4, "ZeroPage_X">>, <<\h6D, "ADC", 3, 4, "Absolute">>,
    <<\h7D, "ADC", 3, 4, "Absolute_X">>, <<\h79, "ADC", 3, 4, "Absolute_Y">>,
    <<\h61, "ADC", 2, 6, "Indirect_X">>, <<\h71, "ADC", 2, 5, "Indirect_Y">>,
    <<\h29, "AND", 2, 2, "Immediate">>, <<\h25, "AND", 2, 3, "ZeroPage">>,
    <<\h35, "AND", 2, 4, "ZeroPage_X">>, <<\h2D, "AND", 3, 4, "Absolute">>,
    <<\h3D, "AND", 3, 4, "Absolute_X">>, <<\h39, "AND", 3, 4, "Absolute_Y">>,
    <<\h21, "AND", 2, 6, "Indirect_X">>, <<\h31, "AND", 2, 5, "Indirect_Y">>,
    <<\h0A, "ASL", 1, 2, "NoneAddressing">>, <<\h06, "ASL", 2, 5, "ZeroPage">>,
    <<\h16, "ASL", 2, 6, "ZeroPage_X">>, <<\h0E, "ASL", 3, 6, "Absolute">>,
    <<\h1E, "ASL", 3, 7, "Absolute_X">>, <<\h90, "BCC", 2, 2, "NoneAddressing">>,
    <<\hB0, "BCS", 2, 2, "NoneAddressing">>, <<\hF0, "BEQ", 2, 2, "NoneAddressing">>,
    <<\h24, "BIT", 2, 3, "ZeroPage">>, <<\h2C, "BIT", 3, 4, "Absolute">>,
    <<\h30, "BMI", 2, 2, "NoneAddressing">>, <<\hD0, "BNE", 2, 2, "NoneAddressing">>,
    <<\h10, "BPL", 2, 2, "NoneAddressing">>, <<\h00, "BRK", 1, 7, "NoneAddressing">>,
    <<\h50, "BVC", 2, 2, "NoneAddressing">>, <<\h70, "BVS", 2, 2, "NoneAddressing">>,
    <<\h18, "CLC", 1, 2, "NoneAddressing">>, <<\hD8, "CLD", 1, 2, "NoneAddressing">>,
    <<\h58, "CLD", 1, 2, "NoneAddressing">>, <<\hB8, "CLV", 1, 2, "NoneAddressing">>,
    <<\hC9, "CMP", 2, 2, "Immediate">>, <<\hC5, "CMP", 2, 3, "ZeroPage">>,
    <<\hD5, "CMP", 2, 4, "ZeroPage_X">>, <<\hCD, "CMP", 3, 4, "Absolute">>,
    <<\hDD, "CMP", 3, 4, "Absolute_X">>, <<\hD9, "CMP", 3, 4, "Absolute_Y">>,
    <<\hC1, "CMP", 2, 6, "Indirect_X">>, <<\hD1, "CMP", 2, 5, "Indirect_Y">>,
    <<\hE0, "CPX", 2, 2, "Immediate">>, <<\hE4, "CPX", 2, 3, "ZeroPage">>,
    <<\hEC, "CPX", 3, 4, "Absolute">>, <<\hC0, "CPY", 2, 2, "Immediate">>,
    <<\hC4, "CPY", 2, 3, "ZeroPage">>, <<\hCC, "CPY", 3, 4, "Absolute">>,
    <<\hC6, "DEC", 2, 5, "ZeroPage">>, <<\hD6, "DEC", 2, 6, "ZeroPage_X">>,
    <<\hCE, "DEC", 3, 6, "Absolute">>, <<\hDE, "DEC", 3, 7, "Absolute_X">>,
    <<\hCA, "DEX", 1, 2, "NoneAddressing">>, <<\h88, "DEY", 1, 2, "NoneAddressing">>,
    <<\h49, "EOR", 2, 2, "Immediate">>, <<\h45, "EOR", 2, 3, "ZeroPage">>,
    <<\h55, "EOR", 2, 4, "ZeroPage_X">>, <<\h4D, "EOR", 3, 4, "Absolute">>,
    <<\h5D, "EOR", 3, 4, "Absolute_X">>, <<\h59, "EOR", 3, 4, "Absolute_Y">>,
    <<\h41, "EOR", 2, 6, "Indirect_X">>, <<\h51, "EOR", 2, 5, "Indirect_Y">>,
    <<\hE6, "INC", 2, 5, "ZeroPage">>, <<\hF6, "INC", 2, 6, "ZeroPage_X">>,
    <<\hEE, "INC", 3, 6, "Absolute">>, <<\hFE, "INC", 3, 7, "Absolute_X">>,
    <<\hE8, "INX", 1, 2, "ZeroPage">>, <<\hC8, "INY", 1, 2, "ZeroPage">>,
    <<\h4C, "JMP", 3, 3, "NoneAddressing">>, <<\h6C, "JMP", 3, 5, "NoneAddressing">>,
    <<\h20, "JSR", 3, 6, "NoneAddressing">>, <<\hA9, "LDA", 2, 2, "Immediate">>,
    <<\hA5, "LDA", 2, 3, "ZeroPage">>, <<\hB5, "LDA", 2, 4, "ZeroPage_X">>,
    <<\hAD, "LDA", 3, 4, "Absolute">>, <<\hBD, "LDA", 3, 4, "Absolute_X">>,
    <<\hB9, "LDA", 3, 4, "Absolute_Y">>, <<\hA1, "LDA", 2, 6, "Indirect_X">>,
    <<\hB1, "LDA", 2, 5, "Indirect_Y">>, <<\hA2, "LDX", 2, 2, "Immediate">>,
    <<\hA6, "LDX", 2, 3, "ZeroPage">>, <<\hB6, "LDX", 2, 4, "ZeroPage_Y">>,
    <<\hAE, "LDX", 3, 4, "Absolute">>, <<\hBE, "LDX", 3, 4, "Absolute_Y">>,
    <<\hA0, "LDY", 2, 2, "Immediate">>, <<\hA4, "LDY", 2, 3, "ZeroPage">>,
    <<\hB4, "LDY", 2, 4, "ZeroPage_X">>, <<\hAC, "LDY", 3, 4, "Absolute">>,
    <<\hBC, "LDY", 3, 4, "Absolute_X">>, <<\h4A, "LSR", 1, 2, "NoneAddressing">>,
    <<\h46, "LSR", 2, 5, "ZeroPage">>, <<\h56, "LSR", 2, 6, "ZeroPage_X">>,
    <<\h4E, "LSR", 3, 6, "Absolute">>, <<\h5E, "LSR", 3, 7, "Absolute_X">>,
    <<\hEA, "NOP", 1, 2, "NoneAddressing">>, <<\h09, "ORA", 2, 2, "Immediate">>,
    <<\h05, "ORA", 2, 3, "ZeroPage">>, <<\h15, "ORA", 2, 4, "ZeroPage_X">>,
    <<\h0D, "ORA", 3, 4, "Absolute">>, <<\h1D, "ORA", 3, 4, "Absolute_X">>,
    <<\h19, "ORA", 3, 4, "Absolute_Y">>, <<\h01, "ORA", 2, 6, "Indirect_X">>,
    <<\h11, "ORA", 2, 5, "Indirect_Y">>, <<\h48, "PHA", 1, 3, "NoneAddressing">>,
    <<\h08, "PHP", 1, 3, "NoneAddressing">>, <<\h68, "PLA", 1, 4, "NoneAddressing">>,
    <<\h28, "PLP", 1, 4, "NoneAddressing">>, <<\h2A, "ROL", 1, 2, "NoneAddressing">>,
    <<\h26, "ROL", 2, 5, "ZeroPage">>, <<\h36, "ROL", 2, 6, "ZeroPage_X">>,
    <<\h2E, "ROL", 3, 6, "Absolute">>, <<\h3E, "ROL", 3, 7, "Absolute_X">>,
    <<\h6A, "ROR", 1, 2, "NoneAddressing">>, <<\h66, "ROR", 2, 5, "ZeroPage">>,
    <<\h76, "ROR", 2, 6, "ZeroPage_X">>, <<\h6E, "ROR", 3, 6, "Absolute">>,
    <<\h7E, "ROR", 3, 7, "Absolute_X">>, <<\h40, "RTI", 1, 6, "NoneAddressing">>,
    <<\h60, "RTS", 1, 6, "NoneAddressing">>, <<\hE9, "SBC", 2, 2, "Immediate">>,
    <<\hE5, "SBC", 2, 3, "ZeroPage">>, <<\hF5, "SBC", 2, 4, "ZeroPage_X">>,
    <<\hED, "SBC", 3, 4, "Absolute">>, <<\hFD, "SBC", 3, 4, "Absolute_X">>,
    <<\hF9, "SBC", 3, 4, "Absolute_Y">>, <<\hE1, "SBC", 2, 6, "Indirect_X">>,
    <<\hF1, "SBC", 2, 5, "Indirect_Y">>, <<\h38, "SEC", 1, 2, "NoneAddressing">>,
    <<\hF8, "SED", 1, 2, "NoneAddressing">>, <<\h78, "SEI", 1, 2, "NoneAddressing">>,
    <<\h85, "STA", 2, 3, "ZeroPage">>, <<\h95, "STA", 2, 4, "ZeroPage_X">>,
    <<\h8D, "STA", 3, 4, "Absolute">>, <<\h9D, "STA", 3, 5, "Absolute_X">>,
    <<\h99, "STA", 3, 5, "Absolute_Y">>, <<\h81, "STA", 2, 6, "Indirect_X">>,
    <<\h91, "STA", 2, 5, "Indirect_Y">>, <<\h86, "STX", 2, 3, "ZeroPage">>,
    <<\h96, "STX", 2, 4, "ZeroPage_Y">>, <<\h8E, "STX", 3, 4, "Absolute">>,
    <<\h84, "STY", 2, 3, "ZeroPage">>, <<\h94, "STY", 2, 4, "ZeroPage_X">>,
    <<\h8C, "STY", 3, 4, "Absolute">>, <<\hAA, "TAX", 1, 2, "NoneAddressing">>,
    <<\hA8, "TAY", 1, 2, "NoneAddressing">>, <<\hBA, "TSX", 1, 2, "NoneAddressing">>,
    <<\h8A, "TXA", 1, 2, "NoneAddressing">>, <<\h9A, "TXS", 1, 2, "NoneAddressing">>,
    <<\h98, "TYA", 1, 2, "NoneAddressing">>, <<\h04, "*NOP", 2, 3, "ZeroPage">>,
    <<\h44, "*NOP", 2, 3, "ZeroPage">>, <<\h64, "*NOP", 2, 3, "ZeroPage">>,
    <<\h0C, "*NOP", 3, 4, "Absolute">>, <<\h14, "*NOP", 2, 4, "ZeroPage_X">>,
    <<\h34, "*NOP", 2, 4, "ZeroPage_X">>, <<\h54, "*NOP", 2, 4, "ZeroPage_X">>,
    <<\h74, "*NOP", 2, 4, "ZeroPage_X">>, <<\hD4, "*NOP", 2, 4, "ZeroPage_X">>,
    <<\hF4, "*NOP", 2, 4, "ZeroPage_X">>, <<\h1A, "*NOP", 1, 2, "NoneAddressing">>,
    <<\h3A, "*NOP", 1, 2, "NoneAddressing">>, <<\h5A, "*NOP", 1, 2, "NoneAddressing">>,
    <<\h7A, "*NOP", 1, 2, "NoneAddressing">>, <<\hDA, "*NOP", 1, 2, "NoneAddressing">>,
    <<\hFA, "*NOP", 1, 2, "NoneAddressing">>, <<\h80, "*NOP", 2, 2, "Immediate">>,
    <<\h82, "*NOP", 2, 2, "Immediate">>, <<\h89, "*NOP", 2, 2, "Immediate">>,
    <<\hC2, "*NOP", 2, 2, "Immediate">>, <<\hE2, "*NOP", 2, 2, "Immediate">>,
    <<\h1C, "*NOP", 3, 4, "Absolute_X">>, <<\h3C, "*NOP", 3, 4, "Absolute_X">>,
    <<\h5C, "*NOP", 3, 4, "Absolute_X">>, <<\h7C, "*NOP", 3, 4, "Absolute_X">>,
    <<\hDC, "*NOP", 3, 4, "Absolute_X">>, <<\hFC, "*NOP", 3, 4, "Absolute_X">>,
    <<\hA3, "*LAX", 2, 6, "Indirect_X">>, <<\hA7, "*LAX", 2, 3, "ZeroPage">>,
    <<\hAF, "*LAX", 3, 4, "Absolute">>, <<\hB3, "*LAX", 2, 5, "Indirect_Y">>,
    <<\hB7, "*LAX", 2, 4, "ZeroPage_Y">>, <<\hBF, "*LAX", 3, 4, "Absolute_Y">>,
    <<\h83, "*SAX", 2, 6, "Indirect_X">>, <<\h87, "*SAX", 2, 3, "ZeroPage">>,
    <<\h8F, "*SAX", 3, 4, "Absolute">>, <<\h97, "*SAX", 2, 4, "ZeroPage_Y">>,
    <<\hEB, "*SBC", 2, 2, "Immediate">>, <<\hC3, "*DCP", 2, 8, "Indirect_X">>,
    <<\hC7, "*DCP", 2, 5, "ZeroPage">>, <<\hCF, "*DCP", 3, 6, "Absolute">>,
    <<\hD3, "*DCP", 2, 8, "Indirect_Y">>, <<\hD7, "*DCP", 2, 6, "ZeroPage_X">>,
    <<\hDB, "*DCP", 3, 7, "Absolute_Y">>, <<\hDF, "*DCP", 3, 7, "Absolute_X">>,
    <<\hE7, "*ISB", 2, 5, "ZeroPage">>, <<\hF7, "*ISB", 2, 6, "ZeroPage_X">>,
    <<\hEF, "*ISB", 3, 6, "Absolute">>, <<\hFF, "*ISB", 3, 7, "Absolute_X">>,
    <<\hFB, "*ISB", 3, 7, "Absolute_Y">>, <<\hE3, "*ISB", 2, 8, "Indirect_X">>,
    <<\hF3, "*ISB", 2, 8, "Indirect_Y">>, <<\h07, "*SLO", 2, 5, "ZeroPage">>,
    <<\h17, "*SLO", 2, 6, "ZeroPage_X">>, <<\h0F, "*SLO", 3, 6, "Absolute">>,
    <<\h1F, "*SLO", 3, 7, "Absolute_X">>, <<\h1B, "*SLO", 3, 7, "Absolute_Y">>,
    <<\h03, "*SLO", 2, 8, "Indirect_X">>, <<\h13, "*SLO", 2, 8, "Indirect_Y">>,
    <<\h27, "*RLA", 2, 5, "ZeroPage">>, <<\h37, "*RLA", 2, 6, "ZeroPage_X">>,
    <<\h2F, "*RLA", 3, 6, "Absolute">>, <<\h3F, "*RLA", 3, 7, "Absolute_X">>,
    <<\h3B, "*RLA", 3, 7, "Absolute_Y">>, <<\h23, "*RLA", 2, 8, "Indirect_X">>,
    <<\h33, "*RLA", 2, 8, "Indirect_Y">>, <<\h47, "*SRE", 2, 5, "ZeroPage">>,
    <<\h57, "*SRE", 2, 6, "ZeroPage_X">>, <<\h4F, "*SRE", 3, 6, "Absolute">>,
    <<\h5F, "*SRE", 3, 7, "Absolute_X">>, <<\h5B, "*SRE", 3, 7, "Absolute_Y">>,
    <<\h43, "*SRE", 2, 8, "Indirect_X">>, <<\h53, "*SRE", 2, 8, "Indirect_Y">>,
    <<\h67, "*RRA", 2, 8, "ZeroPage">>, <<\h77, "*RRA", 2, 8, "ZeroPage_X">>,
    <<\h6F, "*RRA", 3, 8, "Absolute">>, <<\h7F, "*RRA", 3, 7, "Absolute_X">>,
    <<\h7B, "*RRA", 3, 7, "Absolute_Y">>, <<\h63, "*RRA", 2, 8, "Indirect_X">>,
    <<\h73, "*RRA", 2, 8, "Indirect_Y">> }

OPCODES == {r[1] : r \in CPU_OPS_CODES}

OPECODE_MAP == [c \in OPCODES |-> CHOOSE r \in CPU_OPS_CODES : r[1] = c]

OpLen(code) == OPECODE_MAP[code][3]
OpCycle(code) == OPECODE_MAP[code][4]
OpMode(code) == OPECODE_MAP[code][5]

----------------------------------------------------------------------------
(* cpu.rs: the run loop.                                                   *)

\* The match of run_with_callback, but for 0x00, which returns.
Dispatch(m, code, mode) ==
    CASE code \in {\h69, \h65, \h75, \h6D, \h7D, \h79, \h61, \h71} -> adc(m, mode)
      [] code \in {\h29, \h25, \h35, \h2D, \h3D, \h39, \h21, \h31} -> and(m, mode)
      [] code \in {\h0A} -> asl_accumulator(m)
      [] code \in {\h06, \h16, \h0E, \h1E} -> asl(m, mode).m
      [] code \in {\h90} -> bcc(m)
      [] code \in {\hB0} -> bcs(m)
      [] code \in {\hF0} -> beq(m)
      [] code \in {\h24, \h2C} -> bit(m, mode)
      [] code \in {\h30} -> bmi(m)
      [] code \in {\hD0} -> bne(m)
      [] code \in {\h10} -> bpl(m)
      [] code \in {\h50} -> bvc(m)
      [] code \in {\h70} -> bvs(m)
      [] code \in {\h18} -> clc(m)
      [] code \in {\hD8} -> cld(m)
      [] code \in {\h58} -> cli(m)
      [] code \in {\hB8} -> clv(m)
      [] code \in {\hD1, \hC1, \hD9, \hDD, \hCD, \hD5, \hC5, \hC9} -> cmp(m, mode)
      [] code \in {\hE0, \hE4, \hEC} -> cpx(m, mode)
      [] code \in {\hC0, \hC4, \hCC} -> cpy(m, mode)
      [] code \in {\hC6, \hD6, \hCE, \hDE} -> dec(m, mode)
      [] code \in {\hCA} -> dex(m)
      [] code \in {\h88} -> dey(m)
      [] code \in {\h49, \h45, \h55, \h4D, \h5D, \h59, \h41, \h51} -> eor(m, mode)
      [] code \in {\hE6, \hF6, \hEE, \hFE} -> inc(m, mode)
      [] code \in {\hE8} -> inx(m)
      [] code \in {\hC8} -> iny(m)
      [] code \in {\h4C} -> jmp_absolute(m)
      [] code \in {\h6C} -> jmp(m)
      [] code \in {\h20} -> jsr(m)
      [] code \in {\hA9, \hA5, \hB5, \hAD, \hBD, \hB9, \hA1, \hB1} -> lda(m, mode)
      [] code \in {\hA2, \hA6, \hB6, \hAE, \hBE} -> ldx(m, mode)
      [] code \in {\hA0, \hA4, \hB4, \hAC, \hBC} -> ldy(m, mode)
      [] code \in {\h4A} -> lsr_accumulator(m)
      [] code \in {\h46, \h56, \h4E, \h5E} -> lsr(m, mode).m
      [] code \in {\hEA} -> nop(m)
      [] code \in {\h09, \h05, \h15, \h0D, \h1D, \h19, \h01, \h11} -> ora(m, mode)
      [] code \in {\h48} -> pha(m)
      [] code \in {\h08} -> php(m)
      [] code \in {\h68} -> pla(m)
      [] code \in {\h28} -> plp(m)
      [] code \in {\h2A} -> rol_accumulate(m)
      [] code \in {\h26, \h36, \h2E, \h3E} -> rol(m, mode).m
      [] code \in {\h6A} -> ror_accumulator(m)
      [] code \in {\h66, \h76, \h6E, \h7E} -> ror(m, mode).m
      [] code \in {\h40} -> rti(m)
      [] code \in {\h60} -> rts(m)
      [] code \in {\hE9, \hE5, \hF5, \hED, \hFD, \hF9, \hE1, \hF1} -> sbc(m, mode)
      [] code \in {\h38} -> sec(m)
      [] code \in {\hF8} -> sed(m)
      [] code \in {\h78} -> sei(m)
      [] code \in {\h85, \h95, \h8D, \h9D, \h99, \h81, \h91} -> sta(m, mode)
      [] code \in {\h86, \h96, \h8E} -> stx(m, mode)
      [] code \in {\h84, \h94, \h8C} -> sty(m, mode)
      [] code \in {\hAA} -> tax(m)
      [] code \in {\hA8} -> tay(m)
      [] code \in {\hBA} -> tsx(m)
      [] code \in {\h8A} -> txa(m)
      [] code \in {\h9A} -> txs(m)
      [] code \in {\h98} -> tya(m)
      [] code \in {\hA3, \hA7, \hAF, \hB3, \hB7, \hBF} -> lax(m, mode)
      [] code \in {\h83, \h87, \h8F, \h97} -> sax(m, mode)
      [] code \in {\hEB} -> sbc(m, mode)
      [] code \in {\hC3, \hC7, \hCF, \hD3, \hD7, \hDB, \hDF} -> dcp(m, mode)
      [] code \in {\hE3, \hE7, \hEF, \hF3, \hF7, \hFB, \hFF} -> isc(m, mode)
      [] code \in {\h03, \h07, \h17, \h0F, \h1F, \h1B, \h13} -> slo(m, mode)
      [] code \in {\h27, \h37, \h2F, \h3F, \h3B, \h23, \h33} -> rla(m, mode)
      [] code \in {\h47, \h57, \h4F, \h5F, \h5B, \h43, \h53} -> sre(m, mode)
      [] code \in {\h67, \h77, \h6F, \h7F, \h7B, \h63, \h73} -> rra(m, mode)
      [] code \in {\h04, \h44, \h64, \h0C, \h14, \h34, \h54, \h74, \hD4, \hF4, \h1A, \h3A, \h5A,
            \h7A, \hDA, \hFA, \h80, \h82, \h89, \hC2, \hE2, \h1C, \h3C, \h5C, \h7C, \hDC, \hFC} -> nop(m)
      [] OTHER -> Panic(m, "not_arrowed_operation_code")

\* CPU::interrupt_nmi
interrupt_nmi(m) ==
    With(stack_push_u16(m, m.cpu.program_counter), LAMBDA m1 :
    LET flag == Insert(Remove(m1.cpu.status, BREAK), RESERVED) IN
    With(stack_push(m1, flag), LAMBDA m2 :
    With(mem_read_u16(bus_tick([m2 EXCEPT !.cpu.status = Insert(@, INTERRUPT_DISABLE)], 2),
                      \hFFFA), LAMBDA v :
      IF Ok(v.m) THEN [v.m EXCEPT !.cpu.program_counter = v.v] ELSE v.m)))

\* The top of the loop: if let Some(_nmi) = self.bus.poll_nmi_status()
run_poll(m) ==
    With(poll_nmi_status(m), LAMBDA p :
      IF p.v # None THEN interrupt_nmi(p.m) ELSE p.m)

\* Bus::tick takes a u8 and the loop hands it the usize sum
\* opcode.cycle + extra_cycles: the sum narrowed to the parameter's eight bits.
tick_argument(cycles) == cycles % 256

\* What the loop hands to Bus::tick after the handler of `code` has run.
instruction_cycles(m, code) == OpCycle(code) + m.cpu.extra_cycles

\* A loop that has no arm for BRK.
returns_never(code) == FALSE

\* 0x00 => return, // BRK
returns(code) == code = \h00

\* The rest of one iteration: fetch, dispatch, tick, advance.  ret says that
\* the loop has returned (BRK).
run_execute(m) ==
    With(mem_read(m, m.cpu.program_counter), LAMBDA f :
    With(Checked(f.m, m.cpu.program_counter + 1, 65536), LAMBDA pc1 :
    LET code == f.v
        before_program_counter == pc1.v
    IN
    With([pc1.m EXCEPT !.cpu.program_counter = pc1.v], LAMBDA m1 :
      IF ~Ok(m1) THEN [m |-> m1, ret |-> FALSE, code |-> code]
      ELSE IF code \notin OPCODES
      THEN [m |-> Panic(m1, "opcode_not_recognized"), ret |-> FALSE, code |-> code]
      ELSE IF returns(code) THEN [m |-> m1, ret |-> TRUE, code |-> code]
      ELSE
        With(Dispatch(m1, code, OpMode(code)), LAMBDA m2 :
        With(bus_tick(m2, tick_argument(instruction_cycles(m2, code))), LAMBDA m3 :
          IF ~Ok(m3) \/ before_program_counter # m3.cpu.program_counter
          THEN [m |-> m3, ret |-> FALSE, code |-> code]
          ELSE With(Checked(m3, m3.cpu.program_counter + OpLen(code) - 1, 65536),
                    LAMBDA adv :
                 [m |-> IF Ok(adv.m) THEN [adv.m EXCEPT !.cpu.program_counter = adv.v]
                        ELSE adv.m,
                  ret |-> FALSE, code |-> code]))))))

----------------------------------------------------------------------------
(* The state after construction, and the operations as actions.            *)

\* Bytes laid out from an index on, as a sparse array.
Bytes(base, seq) == [i \in base..(base + Len(seq) - 1) |-> seq[i - base + 1]]

\* Rom.prg_rom or Rom.chr_rom: a Vec<u8> of len bytes, zero but for `bytes`.
Rom(len, bytes) == [len |-> len, bytes |-> bytes]

\* PRG ROM is indexed from 0x8000, and a 16 KiB ROM is seen twice: the byte
\* of each CPU address lies at the offset Bus::read_prg_rom reads it from.
Prg(len, addr, seq) ==
    LET offset(k) ==
            IF len = \h4000 /\ addr + k - 1 - \h8000 >= \h4000
            THEN (addr + k - 1 - \h8000) % \h4000 ELSE addr + k - 1 - \h8000
    IN  [o \in { offset(k) : k \in 1..Len(seq) } |->
            seq[CHOOSE k \in 1..Len(seq) :
                  /\ offset(k) = o
                  /\ \A j \in 1..Len(seq) : offset(j) = o => j <= k]]

NoLast == [op |-> "none", a |-> 0, d |-> 0, r |-> 0]
\* No instruction: 256 is no opcode.
NoPrev == [d |-> 256, a |-> 0, p |-> 0, sp |-> 0, before |-> 256]

----------------------------------------------------------------------------
(* frame.rs and render.rs.                                                 *)

WUDTH == 256
HEIGHT == 240

\* Frame::new: data is WUDTH * HEIGHT * 3 zero bytes; the array is kept
\* sparse, its length is FrameLen.
FrameLen == WUDTH * HEIGHT * 3
Frame_new == ZeroArray

\* Frame::set_pixcel.  x and y are usize: the products do not overflow for
\* the coordinates used here.
set_pixcel(data, x, y, rgb) ==
    LET base == y * 3 * WUDTH + x * 3
    IN  IF base + 2 < FrameLen
        THEN (base :> rgb[1]) @@ (base + 1 :> rgb[2]) @@ (base + 2 :> rgb[3]) @@ data
        ELSE data

\* palette::SYSTEM_PALLETE[i], an (u8, u8, u8).  The 64 colours are not in
\* the source tree: the three bytes of entry i are written 256 + 3i + k, so
\* that they are told from each other and from the bytes of a fresh Frame.
SYSTEM_PALLETE(i) == <<256 + 3 * i, 256 + 3 * i + 1, 256 + 3 * i + 2>>

\* render: `for i in 0..0x03cf`.
RenderTiles == \h03CF

\* render: the first of the 16 bytes of the tile that vram[i] names.
TileStart(p, i) == bknd_pattern_addr(p.ctrl) + Peek(p.vram, i) * 16

\* render: &ppu.chr_rom[start..=start + 15] panics unless the range lies in
\* chr_rom.  Drawing stops at the first tile that panics.
TilesDrawn(p) ==
    With({ i \in 0..(RenderTiles - 1) : TileStart(p, i) + 15 >= p.chr_rom.len },
         LAMBDA bad :
           IF bad = {} THEN RenderTiles
           ELSE CHOOSE i \in bad : \A j \in bad : i <= j)

\* render: the value of the pixel that tile i draws in its row y at x.  The
\* loop `for x in (0..7).rev()` takes x = 6, 5, .. 0 and shifts the two bytes
\* right after each, so x is drawn from bit 6 - x.
TileValue(p, i, y, x) ==
    LET upper == Peek(p.chr_rom.bytes, TileStart(p, i) + y)
        lower == Peek(p.chr_rom.bytes, TileStart(p, i) + y + 8)
        shift == 2 ^ (6 - x)
    IN  ((upper \div shift) % 2) * 2 + ((lower \div shift) % 2)

\* render: `let rgb = match value`.
TileRgb(value) ==
    CASE value = 0 -> SYSTEM_PALLETE(\h01)
      [] value = 1 -> SYSTEM_PALLETE(\h23)
      [] value = 2 -> SYSTEM_PALLETE(\h27)
      [] value = 3 -> SYSTEM_PALLETE(\h30)

\* The largest member of a set of naturals that is not empty.
Largest(S) == -(CHOOSE m \in { -n : n \in S } : \A k \in S : m <= -k)

\* render: tile i calls set_pixcel(i % 32 + x, i / 32 + y, rgb) for y in 0..7
\* and x in 0..6.  These are the tiles below `drawn` that write the pixel
\* (px, py).
TilesAt(drawn, px, py) ==
    { ty * 32 + tx : tx \in { t \in (px - 6)..px : t \in 0..31 },
                     ty \in { t \in (py - 7)..py : t >= 0 } }
      \cap 0..(drawn - 1)

\* render.  The tiles are drawn in turn, every pixel with set_pixcel, so a
\* pixel keeps what the last tile to write it has drawn; no coordinate
\* reaches WUDTH, so a pixel is written only under its own coordinates.
\* The result is the Frame's data and the panic, if there is one.
render(p, data) ==
    With(TilesDrawn(p), LAMBDA drawn :
    With([ c \in { c \in (0..37) \X (0..37) : TilesAt(drawn, c[1], c[2]) # {} } |->
             With(Largest(TilesAt(drawn, c[1], c[2])), LAMBDA i :
               TileRgb(TileValue(p, i, c[2] - (i \div 32), c[1] - (i % 32)))) ],
         LAMBDA px :
      [data |-> [ off \in (DOMAIN data)
                          \cup { (c[2] * 3 * WUDTH) + (c[1] * 3) + k :
                                    c \in DOMAIN px, k \in 0..2 } |->
                   IF <<(off \div 3) % WUDTH, off \div (3 * WUDTH)>> \in DOMAIN px
                   THEN set_pixcel(data, (off \div 3) % WUDTH, off \div (3 * WUDTH),
                          px[<<(off \div 3) % WUDTH, off \div (3 * WUDTH)>>])[off]
                   ELSE data[off] ],
       fault |-> IF drawn < RenderTiles THEN "index_out_of_bounds" ELSE "none"]))

Commit(m) ==
    /\ cpu' = m.cpu
    /\ bus' = m.bus
    /\ ppu' = m.ppu
    /\ fault' = m.fault
    /\ frames' = m.frames
    /\ build' = m.build

\* Bus::new, NesPPU::new and CPU::new.
Construct(prg_rom, mirroring, bld) ==
    /\ cpu = CPU_new
    /\ bus = Bus_new(prg_rom)
    /\ ppu = NesPPU_new(Rom(8192, ZeroArray), mirroring)
    /\ fault = "none"
    /\ frames = 0
    /\ build = bld
    /\ halted = FALSE
    /\ last = NoLast
    /\ calls = << >>
    /\ prev = NoPrev
    /\ ops = 0
    /\ frame = Frame_new

----------------------------------------------------------------------------
(* The CPU run loop on a set of cartridges.                                *)

\* A run of the CPU: the cartridge, what the host wrote to RAM and to the
\* public registers before calling run, whether the PPU is in vertical blank,
\* and the build.
Plain(prg) ==
    [prg |-> prg, ram |-> ZeroArray, a |-> 0, x |-> 0, y |-> 0,
     p |-> INITIAL_STATUS, sp |-> INITIAL_STACK, pc |-> \h8000,
     vblank |-> FALSE, build |-> "debug", chr |-> Rom(8192, ZeroArray)]

Start(sc) ==
    /\ cpu = [CPU_new EXCEPT !.register_a = sc.a, !.register_x = sc.x,
                             !.register_y = sc.y, !.status = sc.p,
                             !.stack_pointer = sc.sp, !.program_counter = sc.pc]
    /\ bus = [Bus_new(sc.prg) EXCEPT !.cpu_vram =
                 \* mem_write of each byte in the order of the addresses: the
                 \* cell is addr & 0x7ff, and the last write to a cell stays.
                 [c \in { mirror_down_ram(a) : a \in DOMAIN sc.ram } |->
                    sc.ram[Largest({ a \in DOMAIN sc.ram : mirror_down_ram(a) = c })]]]
    /\ ppu = [NesPPU_new(sc.chr, "Vertical") EXCEPT
                 !.status = IF sc.vblank THEN set_start_vblank(@) ELSE @]
    /\ fault = "none"
    /\ frames = 0
    /\ build = sc.build
    /\ halted = FALSE
    /\ last = NoLast
    /\ calls = << >>
    /\ prev = NoPrev
    /\ ops = 0
    /\ frame = Frame_new

Builds == {"debug", "release"}

\* Status bytes a program can hold: U set, B clear.
StatusSamples == {\h24, \h20, \hEF}
StackSamples == {\hFD, \h01, \h00}
PullSamples == {\h00, \hFF, \h10, \h30, \hCF}

\* The programs of the tests of cpu.rs, run as the tests run them.
TestPrograms ==
    { <<\hA9, \h05, \h00>>, <<\hA9, \h00, \h00>>, <<\hA9, \h0A, \hAA, \h00>>,
      <<\hA9, \hFF, \hAA, \hE8, \hE8>>, <<\hA9, \hC0, \hAA, \hE8, \h00>>,
      <<\hA5, \h10, \h00>> }

\* rom_data is the header, the program, 32768 zero bytes and 8192 bytes of
\* 0x02: the 8192 bytes of CHR ROM that follow the 32768 of PRG ROM begin
\* with as many zero bytes as the program is long.
\* Only test_lda_from_memory writes to RAM: cpu.mem_write(0x10, 0x55).
TestScenarios ==
    { [Plain(Rom(\h8000, Prg(\h8000, \h8000, t))) EXCEPT
          !.ram = IF t = <<\hA5, \h10, \h00>> THEN Bytes(\h10, <<\h55>>)
                  ELSE ZeroArray,
          !.chr = Rom(8192, [i \in Len(t)..8191 |-> \h02]), !.build = b] :
        t \in TestPrograms, b \in Builds }

\* LDA #1; BNE -2: a branch taken to itself, for ever.
BranchLoopScenarios ==
    { [Plain(Rom(\h8000, Prg(\h8000, \h8000, <<\hA9, \h01, \hD0, \hFE>>))) EXCEPT
          !.build = b] : b \in Builds }

\* LDA #$80; STA $2000; NOP; BRK, with the NMI vector at 0x9000: RTI.
NmiRom(len) ==
    Rom(len, Prg(len, \h8000, <<\hA9, \h80, \h8D, \h00, \h20, \hEA, \h00>>)
               @@ Prg(len, \h9000, <<\h40>>)
               @@ Prg(len, \hFFFA, <<\h00, \h90>>))

NmiScenarios ==
    { [Plain(NmiRom(len)) EXCEPT !.p = p, !.sp = sp, !.vblank = vb] :
        len \in {\h4000, \h8000}, p \in StatusSamples, sp \in StackSamples,
        vb \in BOOLEAN }

\* PHA; PLP and PHP; PLP, and BIT $10, on sample bytes; RTI on a stack the
\* host has written.
PullScenarios ==
    { [Plain(Rom(\h8000, Prg(\h8000, \h8000, <<\h48, \h28, \h00>>))) EXCEPT
          !.a = v, !.sp = sp] : v \in PullSamples, sp \in StackSamples }
    \cup
    { [Plain(Rom(\h8000, Prg(\h8000, \h8000, <<\h08, \h28, \h00>>))) EXCEPT
          !.p = p] : p \in StatusSamples }
    \cup
    { [Plain(Rom(\h8000, Prg(\h8000, \h8000, <<\h24, \h10, \h00>>))) EXCEPT
          !.a = \hFF, !.ram = Bytes(\h10, <<v>>)] : v \in PullSamples }
    \cup
    { [Plain(Rom(\h8000, Prg(\h8000, \h8000, <<\h40>>))) EXCEPT
          !.sp = \hFA, !.ram = Bytes(\h01FB, <<v, \h10, \h80>>)] :
        v \in PullSamples }

\* LDA $80F0,X; NOP; BRK: the indexed read crosses a page for X = 0x20.
PenaltyScenarios ==
    { [Plain(Rom(\h8000, Prg(\h8000, \h8000, <<\hBD, \hF0, \h80, \hEA, \h00>>))) EXCEPT
          !.x = x] : x \in {\h00, \h05, \h20} }

\* JSR and RTS: a subroutine that returns at once, one that uses the stack,
\* a nested call, a JSR whose return address is on the next page, a program
\* in RAM, and a JSR in the last three bytes of the address space.
JsrScenarios ==
    { [Plain(Rom(\h8000, Prg(\h8000, \h8000, <<\h20, \h10, \h80, \h00>>)
                         @@ Prg(\h8000, \h8010, <<\h60>>))) EXCEPT !.sp = sp] :
        sp \in StackSamples }
    \cup
    { [Plain(Rom(\h8000, Prg(\h8000, \h80FD, <<\h20, \h00, \h90, \h00>>)
                         @@ Prg(\h8000, \h9000, <<\h48, \h68, \h60>>))) EXCEPT
          !.pc = \h80FD, !.a = \h77] }
    \cup
    { Plain(Rom(\h8000, Prg(\h8000, \h8000, <<\h20, \h10, \h80, \h00>>)
                        @@ Prg(\h8000, \h8010, <<\h20, \h20, \h80, \h60>>)
                        @@ Prg(\h8000, \h8020, <<\h60>>))) }
    \cup
    { [Plain(Rom(\h8000, ZeroArray)) EXCEPT
          !.pc = \h0200,
          !.ram = Bytes(\h0200, <<\h20, \h10, \h02, \h00>>) @@ Bytes(\h0210, <<\h60>>)] }
    \cup
    { [Plain(Rom(\h8000, Prg(\h8000, \hFFFD, <<\h20, \h10, \h80>>)
                         @@ Prg(\h8000, \h8010, <<\h60>>))) EXCEPT
          !.pc = \hFFFD, !.build = b] : b \in Builds }

\* PHA; PLA and PHP; PLP on sample bytes, with the stack pointer at the top,
\* at the bottom and one above it.
PairScenarios ==
    { [Plain(Rom(\h8000, Prg(\h8000, \h8000, <<\h48, \h68, \h00>>))) EXCEPT
          !.a = v, !.p = p, !.sp = sp] :
        v \in PullSamples, p \in {\h24, \hEF}, sp \in StackSamples }
    \cup
    { [Plain(Rom(\h8000, Prg(\h8000, \h8000, <<\h08, \h28, \h00>>))) EXCEPT
          !.a = \h5A, !.p = p, !.sp = sp] :
        p \in StatusSamples, sp \in StackSamples }

\* JMP ($02FF), JMP ($90FF) and JMP ($07FF) with 0x80, 0x40, 0x50 at the
\* pointer, at the start of its page and at the start of the next page; a
\* JMP ($02FF) at 0x8000 whose target is 0x8001; and the three bytes stored to
\* 0x30FF, 0x3000 and 0x3100 before JMP ($30FF).
JmpBytes(p) ==
    Bytes(p, <<\h80>>) @@ Bytes(p - \hFF, <<\h40>>) @@ Bytes(p + 1, <<\h50>>)

JmpScenarios ==
    { [Plain(Rom(\h8000, Prg(\h8000, \h8000, <<\h6C, \hFF, \h02>>))) EXCEPT
          !.ram = JmpBytes(\h02FF)] }
    \cup
    { Plain(Rom(len, Prg(len, \h8000, <<\h6C, \hFF, \h90>>)
                     @@ Prg(len, \h90FF, <<\h80>>) @@ Prg(len, \h9000, <<\h40>>)
                     @@ Prg(len, \h9100, <<\h50>>))) : len \in {\h4000, \h8000} }
    \cup
    { [Plain(Rom(\h8000, ZeroArray)) EXCEPT
          !.pc = \h0010,
          !.ram = Bytes(\h0010, <<\h6C, \hFF, \h07>>) @@ JmpBytes(\h07FF)] }
    \cup
    { [Plain(Rom(\h8000, Prg(\h8000, \h8000, <<\h6C, \hFF, \h02>>))) EXCEPT
          !.ram = Bytes(\h02FF, <<\h01>>) @@ Bytes(\h0200, <<\h80>>)
                  @@ Bytes(\h0300, <<\h50>>)] }
    \cup
    { Plain(Rom(\h8000, Prg(\h8000, \h8000,
         <<\hA9, \h80, \h8D, \hFF, \h30, \hA9, \h40, \h8D, \h00, \h30,
           \hA9, \h50, \h8D, \h00, \h31, \h6C, \hFF, \h30>>))) }

\* Every opcode of the table once, with the operand bytes 0x10, 0x02 (zero
\* page 0x10, absolute 0x0210, a branch 16 bytes forward) and a BRK after it.
OpcodeScenarios ==
    { [Plain(Rom(\h8000, Prg(\h8000, \h8000, <<code, \h10, \h02, \h00>>))) EXCEPT
          !.a = \h40, !.x = \h01, !.y = \h02,
          !.ram = Bytes(\h10, <<\h55>>) @@ Bytes(\h0210, <<\h00, \h03>>)] :
        code \in OPCODES }

\* LDA #v and LDA $10 with v at 0x0010, from a state with few flags set and
\* from one with many.
LoadSamples == {\h00, \h05, \h55, \h7F, \h80, \hFF}

LdaScenarios ==
    { [Plain(Rom(\h8000, Prg(\h8000, \h8000, <<\hA9, v, \h00>>))) EXCEPT
          !.a = \h33, !.x = \h11, !.y = \h22, !.p = p] :
        v \in LoadSamples, p \in {\h24, \hEF} }
    \cup
    { [Plain(Rom(\h8000, Prg(\h8000, \h8000, <<\hA5, \h10, \h00>>))) EXCEPT
          !.a = \h33, !.x = \h11, !.y = \h22, !.p = p, !.sp = \h80,
          !.ram = Bytes(\h10, <<v>>)] :
        v \in LoadSamples, p \in {\h24, \hEF} }

\* LDA #v; TAX; INX k times; BRK.
MaxInx == 3

CountSamples == {\h00, \h05, \h7E, \h7F, \hC0, \hFD, \hFE, \hFF}

InxProgram(v, k) == <<\hA9, v, \hAA>> \o [i \in 1..k |-> \hE8] \o <<\h00>>

InxScenarios ==
    { [Plain(Rom(\h8000, Prg(\h8000, \h8000, InxProgram(v, k)))) EXCEPT
          !.x = \h11, !.y = \h22] :
        v \in CountSamples, k \in 0..MaxInx }

\* ADC #m and SBC #m from A = a, with the carry clear and V clear, and with
\* the carry set and V set.
ArithSamples == {\h00, \h01, \h50, \h7F, \h80, \hFF}

ArithScenarios ==
    { [Plain(Rom(\h8000, Prg(\h8000, \h8000, <<code, mv, \h00>>))) EXCEPT
          !.a = a, !.p = p] :
        code \in {\h69, \hE9}, a \in ArithSamples, mv \in ArithSamples,
        p \in {\h24, \h65} }

\* One conditional branch, at the end of a page or at the start of the next,
\* with an offset that stays in the page of the following instruction or
\* leaves it, from a state with N, V, Z, C clear and from one with them set.
BranchCodes == {\h10, \h30, \h50, \h70, \h90, \hB0, \hD0, \hF0}

BranchPlaces ==
    { <<\h80F0, \h20>>, <<\h80F0, \hFC>>, <<\h8100, \hFC>>,
      <<\h80FD, \h01>>, <<\h80FE, \h00>>, <<\h80FE, \h7F>> }

BranchScenarios ==
    { [Plain(Rom(\h8000, Prg(\h8000, pl[1], <<code, pl[2]>>))) EXCEPT
          !.pc = pl[1], !.p = p] :
        code \in BranchCodes, pl \in BranchPlaces, p \in {\h24, \hE7} }

\* JMP, JSR and a taken BNE whose target is the address after their opcode.
SelfTargetScenarios ==
    { Plain(Rom(\h8000, Prg(\h8000, \h8000, t))) :
        t \in { <<\h4C, \h01, \h80>>, <<\h20, \h01, \h80>>, <<\hD0, \hFF>> } }

\* LDA $00FF,X; LDA $02F0,Y and LDA ($10),Y with the pointer 0x02F0 at 0x0010:
\* the index keeps the address in the page of the base, or takes it out.
PageScenarios ==
    { [Plain(Rom(\h8000, Prg(\h8000, \h8000, t))) EXCEPT
          !.x = i, !.y = i, !.ram = Bytes(\h10, <<\hF0, \h02>>)] :
        t \in { <<\hBD, \hFF, \h00>>, <<\hB9, \hF0, \h02>>, <<\hB1, \h10>> },
        i \in {\h00, \h01, \h0F, \h10, \hFF} }

\* DCP, ISB, SLO, RLA, SRE and RRA on the byte v at 0x0010, from A = a, with
\* C and V clear and with them set.
CombinedSamples == {\h00, \h01, \h41, \h80, \hFF}

CombinedScenarios ==
    { [Plain(Rom(\h8000, Prg(\h8000, \h8000, <<code, \h10, \h00>>))) EXCEPT
          !.a = a, !.x = \h11, !.y = \h22, !.p = p, !.ram = Bytes(\h10, <<v>>)] :
        code \in {\hC7, \hE7, \h07, \h27, \h47, \h67},
        a \in {\h00, \h40, \h80, \hFF}, v \in CombinedSamples,
        p \in {\h24, \h65} }

\* PHA; PLA; BRK and JSR $8010 (an RTS) with the stack pointer at the top of
\* page 1.
StackEdgeScenarios ==
    { [Plain(Rom(\h8000, Prg(\h8000, \h8000, t)
                         @@ Prg(\h8000, \h8010, <<\h60>>))) EXCEPT
          !.a = \h5A, !.sp = \hFF] :
        t \in { <<\h48, \h68, \h00>>, <<\h20, \h10, \h80, \h00>> } }

\* LDA $F0,X; LDX $F0,Y; LDA ($F0,X) and LDA ($FF),Y with RAM that tells an
\* address or a pointer byte taken from page 0 from one taken from page 1.
ZeroPageRam ==
    Bytes(\h00, <<\h03>>) @@ Bytes(\h10, <<\h77>>) @@ Bytes(\hF0, <<\h66, \h02>>)
    @@ Bytes(\hFF, <<\h40, \h04>>) @@ Bytes(\h0110, <<\h88>>)
    @@ Bytes(\h0266, <<\h99>>) @@ Bytes(\h0340, <<\hAA>>)
    @@ Bytes(\h0360, <<\hCC>>) @@ Bytes(\h0440, <<\hBB>>)
    @@ Bytes(\h0460, <<\hDD>>)

ZeroPageScenarios ==
    { [Plain(Rom(\h8000, Prg(\h8000, \h8000, t))) EXCEPT
          !.x = i, !.y = i, !.ram = ZeroPageRam] :
        t \in { <<\hB5, \hF0>>, <<\hB6, \hF0>>, <<\hA1, \hF0>>, <<\hB1, \hFF>>,
                <<\hB5, \hFF>>, <<\hA1, \hFF>> },
        i \in {\h00, \h01, \h0F, \h11, \h20} }

Scenarios ==
    TestScenarios \cup BranchLoopScenarios \cup NmiScenarios \cup PullScenarios
    \cup PenaltyScenarios \cup JsrScenarios \cup PairScenarios \cup JmpScenarios
    \cup OpcodeScenarios \cup LdaScenarios \cup InxScenarios
    \cup ArithScenarios \cup BranchScenarios
    \cup SelfTargetScenarios \cup PageScenarios
    \cup CombinedScenarios \cup StackEdgeScenarios
    \cup ZeroPageScenarios

Init == pos = "poll" /\ \E sc \in Scenarios : Start(sc)

\* The top of an iteration of run_with_callback: the NMI poll and service.
PollNmi ==
    /\ pos = "poll" /\ ~halted /\ fault = "none"
    /\ bus.cycle < MaxRunCycle
    /\ Commit(run_poll(Machine))
    /\ pos' = "fetch"
    /\ last' = [op |-> IF ppu.nmi_interrupt # None THEN "nmi" ELSE "poll",
                a |-> cpu.program_counter, d |-> 0, r |-> 0]
    /\ prev' = IF ppu.nmi_interrupt # None THEN NoPrev ELSE prev
    /\ UNCHANGED <<halted, calls, ops, frame>>

\* The rest of the iteration: one instruction and its Bus tick.
Execute ==
    /\ pos = "fetch" /\ ~halted /\ fault = "none"
    /\ With(run_execute(Machine), LAMBDA r :
           /\ Commit(r.m)
           /\ halted' = r.ret
           /\ last' = [op |-> "exec", a |-> cpu.program_counter, d |-> r.code,
                       r |-> r.m.bus.cycle - bus.cycle]
           /\ calls' = IF r.code = \h20
                       THEN <<[at |-> cpu.program_counter, sp |-> cpu.stack_pointer]>> \o calls
                       ELSE IF r.code = \h60 /\ calls # << >> THEN Tail(calls)
                       ELSE calls
           /\ prev' = [d |-> r.code, a |-> cpu.register_a, p |-> cpu.status,
                       sp |-> cpu.stack_pointer, before |-> prev.d])
    /\ pos' = "poll"
    /\ UNCHANGED <<ops, frame>>

Next == PollNmi \/ Execute

Spec == Init /\ [][Next]_vars

----------------------------------------------------------------------------
(* The Bus as its owner drives it: mem_read, mem_write, tick and            *)
(* poll_nmi_status called directly.                                        *)

HostWrite(addrs, datas) ==
    \E a \in addrs, d \in datas :
        /\ fault = "none"
        /\ Commit(mem_write(Machine, a, d))
        /\ last' = [op |-> "write", a |-> a, d |-> d, r |-> 0]
        /\ UNCHANGED <<pos, halted, calls, prev, ops, frame>>

HostRead(addrs) ==
    \E a \in addrs :
        /\ fault = "none"
        /\ With(mem_read(Machine, a), LAMBDA r :
               Commit(r.m) /\ last' = [op |-> "read", a |-> a, d |-> 0, r |-> r.v])
        /\ UNCHANGED <<pos, halted, calls, prev, ops, frame>>

HostTick(cycles) ==
    \E n \in cycles :
        /\ fault = "none"
        /\ bus.cycle + n <= MaxBusCycle
        /\ Commit(bus_tick(Machine, n))
        /\ last' = [op |-> "tick", a |-> 0, d |-> 0, r |-> 0]
        /\ UNCHANGED <<pos, halted, calls, prev, ops, frame>>

HostPoll ==
    /\ fault = "none"
    /\ With(poll_nmi_status(Machine), LAMBDA r :
           Commit(r.m) /\ last' = [op |-> "poll", a |-> 0, d |-> 0, r |-> Len(r.v)])
    /\ UNCHANGED <<pos, halted, calls, prev, ops, frame>>

\* The PPU's status field is public: the flags inserted from outside, the
\* vertical blank flag by StatusRegister::set_start_vblank, and the vertical
\* blank flag removed by StatusRegister::set_end_vblank.
HostStatus(flags) ==
    \/ \E f \in flags :
        /\ fault = "none"
        /\ ~Contains(ppu.status, f)
        /\ ppu' = [ppu EXCEPT !.status = IF f = VBLANK_STARTED THEN set_start_vblank(@)
                                          ELSE Insert(@, f)]
        /\ last' = [op |-> "status", a |-> 0, d |-> f, r |-> 0]
        /\ UNCHANGED <<cpu, bus, fault, frames, build, pos, halted, calls, prev, ops, frame>>
    \/ /\ fault = "none"
       /\ VBLANK_STARTED \in flags
       /\ Contains(ppu.status, VBLANK_STARTED)
       /\ ppu' = [ppu EXCEPT !.status = set_end_vblank(@)]
       /\ last' = [op |-> "status", a |-> 0, d |-> 0, r |-> 0]
       /\ UNCHANGED <<cpu, bus, fault, frames, build, pos, halted, calls, prev, ops, frame>>

\* NesPPU::write_oam_dma called by the owner of the PPU with a page of 256
\* bytes: Bus::mem_write of 0x4014 does not call it.
HostOamDma(pages) ==
    \E value \in pages :
        /\ fault = "none"
        /\ ppu' = write_oam_dma(ppu, value)
        /\ last' = [op |-> "oam_dma", a |-> 0, d |-> value[0], r |-> 0]
        /\ UNCHANGED <<cpu, bus, fault, frames, build, pos, halted, calls, prev, ops, frame>>

\* PPU timing: ticks of an instruction's length and of the longest one whose
\* dots fit the u8, with CTRL written and STATUS read in between.
TickCycles == {2, 3, 7, 85}
CtrlSamples == {\h00, \h80}

InitTick == pos = "host" /\ Construct(Rom(\h8000, ZeroArray), "Vertical", "debug")

NextTick ==
    \/ HostTick(TickCycles)
    \/ HostWrite({\h2000}, CtrlSamples)
    \/ HostRead({\h2002})

SpecTick == InitTick /\ [][NextTick]_vars

\* The PPU's registers: CTRL, MASK, SCROLL and ADDR written and STATUS read, at
\* their addresses and at mirrors of them.
RegWriteAddrs == {\h2000, \h2001, \h2005, \h2006, \h3FF8, \h200D, \h3456}
RegReadAddrs == {\h2002, \h3FFA}
RegData == {\h00, \h80, \hFF}

InitReg == pos = "host" /\ Construct(Rom(\h8000, ZeroArray), "Vertical", "debug")

NextReg ==
    \/ HostWrite(RegWriteAddrs, RegData)
    \/ HostRead(RegReadAddrs)
    \/ HostStatus({SPRITE_OVERFLOW_FLAG, VBLANK_STARTED})
    \/ HostPoll

SpecReg == InitReg /\ [][NextReg]_vars

\* CPU::load and CPU::reset called on a new CPU, as load_and_run calls them:
\* programs of up to three bytes, over cartridges whose reset vector holds
\* 0x8000 or 0x8600.
LoadBytes == {\hA9, \h05, \h00}
LoadPrograms ==
    {<< >>} \cup {<<b1>> : b1 \in LoadBytes}
            \cup {<<b1, b2>> : b1 \in LoadBytes, b2 \in LoadBytes}
            \cup {<<b1, b2, b3>> : b1 \in LoadBytes, b2 \in LoadBytes, b3 \in LoadBytes}
LoadVectors == {<<\h00, \h80>>, <<\h00, \h86>>}

InitLoad ==
    /\ pos = "host"
    /\ \E v \in LoadVectors, b \in Builds :
          Construct(Rom(\h8000, Prg(\h8000, \hFFFC, v)), "Vertical", b)

\* `last` keeps the program that was loaded.
Load ==
    \E program \in LoadPrograms :
        /\ fault = "none" /\ last.op = "none"
        /\ Commit(load(Machine, program))
        /\ last' = [op |-> "load", a |-> 0, d |-> program, r |-> 0]
        /\ UNCHANGED <<pos, halted, calls, prev, ops, frame>>

Reset ==
    /\ fault = "none" /\ last.op # "reset"
    /\ Commit(reset(Machine))
    /\ last' = [last EXCEPT !.op = "reset"]
    /\ UNCHANGED <<pos, halted, calls, prev, ops, frame>>

NextLoad == Load \/ Reset

SpecLoad == InitLoad /\ [][NextLoad]_vars

\* CPU RAM: cells and their mirrors written and read.
RamAddrs == {\h0000, \h0800, \h1800, \h07FF, \h1FFF, \h0010, \h0410, \h1010}
RamData == {\h00, \h55, \hFF}

InitRam == pos = "host" /\ Construct(Rom(\h8000, ZeroArray), "Vertical", "debug")

NextRam ==
    \/ HostWrite(RamAddrs, RamData)
    \/ HostRead(RamAddrs)

SpecRam == InitRam /\ [][NextRam]_vars

\* Bus::tick past the 85 cycles whose dots fit the u8.
WrapCycles == {1, 85, 86, 255}
MaxWrapCycle == 600

InitWrap ==
    /\ pos = "host"
    /\ \E b \in Builds : Construct(Rom(\h8000, ZeroArray), "Vertical", b)

NextWrap ==
    \E n \in WrapCycles :
        /\ fault = "none"
        /\ bus.cycle + n <= MaxWrapCycle
        /\ Commit(bus_tick(Machine, n))
        /\ last' = [op |-> "tick", a |-> 0, d |-> n, r |-> 0]
        /\ UNCHANGED <<pos, halted, calls, prev, ops, frame>>

SpecWrap == InitWrap /\ [][NextWrap]_vars

\* The PPU data port: the address written through $2006, the increment chosen
\* through $2000, and bytes written and read through $2007, on a cartridge of
\* each mirroring whose CHR ROM is not blank.  A run makes MaxDataOps accesses
\* to $2007.
MaxDataOps == 2
Mirrorings == {"Vertical", "Horizontal", "FourScreen"}
AddrHi == {\h00, \h20, \h24, \h28, \h2F, \h30, \h3F, \hFF}
AddrLo == {\h00, \hFF}
IncrementSamples == {\h00, \h04}
VramData == {\h5A, \hA5}
VramChr == Rom(8192, Bytes(0, <<\h11, \h22>>) @@ Bytes(\hFF, <<\h33>>))

InitVram ==
    /\ pos = "host"
    /\ cpu = CPU_new
    /\ bus = Bus_new(Rom(\h8000, ZeroArray))
    /\ \E mirroring \in Mirrorings : ppu = NesPPU_new(VramChr, mirroring)
    /\ fault = "none" /\ frames = 0 /\ build = "debug" /\ halted = FALSE
    /\ last = NoLast /\ calls = << >> /\ prev = NoPrev /\ ops = 0
    /\ frame = Frame_new

PortAddr ==
    /\ ops < MaxDataOps
    /\ HostWrite({\h2006}, IF ppu.addr.hi_ptr THEN AddrHi ELSE AddrLo)

PortCtrl ==
    /\ ops < MaxDataOps
    /\ HostWrite({\h2000}, IncrementSamples)

\* A write of $2007; `last` keeps the VRAM address the write was made at.
DataWrite ==
    \E d \in VramData :
        /\ fault = "none" /\ ops < MaxDataOps
        /\ Commit(mem_write(Machine, \h2007, d))
        /\ last' = [op |-> "data_write", a |-> addr_get(ppu.addr), d |-> d, r |-> 0]
        /\ ops' = ops + 1
        /\ UNCHANGED <<pos, halted, calls, prev, frame>>

\* A read of $2007; `last` keeps the VRAM address and the byte returned.
DataRead ==
    /\ fault = "none" /\ ops < MaxDataOps
    /\ With(mem_read(Machine, \h2007), LAMBDA r :
           /\ Commit(r.m)
           /\ last' = [op |-> "data_read", a |-> addr_get(ppu.addr), d |-> 0, r |-> r.v])
    /\ ops' = ops + 1
    /\ UNCHANGED <<pos, halted, calls, prev, frame>>

NextVram == PortAddr \/ PortCtrl \/ DataWrite \/ DataRead

SpecVram == InitVram /\ [][NextVram]_vars

\* Reads and writes of the Bus at the addresses that are not for reading or
\* not for writing, among reads and writes that are allowed, on a cartridge
\* of 16 KiB and one of 32 KiB.
FaultRom(len) ==
    Rom(len, Prg(len, \h8000, <<\hA9, \h05>>) @@ Prg(len, \hBFFF, <<\h77>>))
FaultWriteAddrs ==
    {\h0000, \h07FF, \h8000, \hBFFF, \hC000, \hFFFF, \h2002, \h3FFA, \h4014,
     \h2003}
FaultReadAddrs ==
    {\h0000, \h2000, \h2001, \h2003, \h2005, \h2006, \h4014, \h2008, \h3FF9,
     \h200B, \h3FFD, \h3456, \h2002, \h2004, \h4016, \h8000, \hFFFF}
FaultData == {\h00, \h5A}
OamPages == { [i \in 0..255 |-> (i + 1) % 251], [i \in 0..255 |-> \hFF] }

InitFault ==
    /\ pos = "host"
    /\ \E len \in {\h4000, \h8000} : Construct(FaultRom(len), "Vertical", "debug")

NextFault ==
    \/ HostWrite(FaultWriteAddrs, FaultData)
    \/ HostRead(FaultReadAddrs)
    \/ HostOamDma(OamPages)

SpecFault == InitFault /\ [][NextFault]_vars

\* NesPPU::mirror_vram_addr applied to every address of the nametable region,
\* under the two mirrorings it maps.
InitMirror ==
    /\ pos = "host"
    /\ cpu = CPU_new
    /\ bus = Bus_new(Rom(\h8000, ZeroArray))
    /\ \E mirroring \in {"Vertical", "Horizontal"} : ppu = NesPPU_new(VramChr, mirroring)
    /\ fault = "none" /\ frames = 0 /\ build = "debug" /\ halted = FALSE
    /\ last = NoLast /\ calls = << >> /\ prev = NoPrev /\ ops = 0
    /\ frame = Frame_new

\* The addresses are taken in turn, from 0x2000 up.
MirrorAddr ==
    LET a == IF last.op = "mirror" THEN last.a + 1 ELSE \h2000
    IN  /\ a <= \h3EFF
        /\ last' = [op |-> "mirror", a |-> a, d |-> 0,
                    r |-> mirror_vram_addr(ppu.mirroring, a)]
        /\ UNCHANGED <<cpu, bus, ppu, fault, frames, build, pos, halted, calls, prev, ops, frame>>

NextMirror == MirrorAddr

SpecMirror == InitMirror /\ [][NextMirror]_vars

\* Frame::set_pixcel called on a new Frame, MaxPixelOps times, with
\* coordinates inside the frame, on its edges and beyond them.
MaxPixelOps == 2
PixelXs == {0, 1, 255, 256, 300}
PixelYs == {0, 1, 239, 240}
PixelRgbs == {<<\h01, \h02, \h03>>, <<\hFF, \h00, \h80>>}

InitFrame == pos = "host" /\ Construct(Rom(\h8000, ZeroArray), "Vertical", "debug")

SetPixcel ==
    \E x \in PixelXs, y \in PixelYs, rgb \in PixelRgbs :
        /\ ops < MaxPixelOps
        /\ frame' = set_pixcel(frame, x, y, rgb)
        /\ last' = [op |-> "set_pixcel", a |-> x, d |-> y, r |-> rgb]
        /\ ops' = ops + 1
        /\ UNCHANGED <<cpu, bus, ppu, fault, frames, build, pos, halted, calls, prev>>

NextFrame == SetPixcel

SpecFrame == InitFrame /\ [][NextFrame]_vars

\* A Bus built with the closure of main, which renders the PPU into its
\* Frame whenever a tick completes a frame: the Bus ticked from its
\* construction to the end of the first frame, with the background bank
\* chosen and the NMI-enable bit cleared through $2000 in between.  The
\* cartridge has two banks of patterns or no CHR ROM at all; the first
\* nametable holds one tile everywhere, or several.
RenderChrs ==
    { Rom(8192, Bytes(0, <<\hFF, \h81, \h00, \h7F, \h80, \h01, \h55, \hAA,
                          \h0F, \hF0, \hFF, \h00, \h81, \h7E, \h33, \hCC>>)
                @@ Bytes(16, <<\h80, \h80, \h80, \h80, \h80, \h80, \h80, \h80>>)
                @@ Bytes(\h0FF0, <<\h01, \h02, \h04, \h08, \h10, \h20, \h40, \h80,
                                   \hFF, \hFF, \hFF, \hFF, \hFF, \hFF, \hFF, \hFF>>)
                @@ Bytes(\h1000, <<\h00, \h00, \h00, \h00, \h00, \h00, \h00, \h00,
                                   \hFF, \hFF, \hFF, \hFF, \hFF, \hFF, \hFF, \hFF>>)
                @@ Bytes(\h1010, <<\hAA, \h55, \hAA, \h55, \hAA, \h55, \hAA, \h55>>)),
      Rom(8192, Bytes(0, <<\h01, \h01, \h01, \h01, \h01, \h01, \h01, \h01>>)
                @@ Bytes(\h1008, <<\h40, \h40, \h40, \h40, \h40, \h40, \h40, \h40>>)),
      Rom(0, ZeroArray) }

RenderVrams ==
    { ZeroArray,
      (0 :> 1),
      [i \in 0..(RenderTiles - 1) |-> 1],
      [i \in 0..(RenderTiles - 1) |-> i % 2],
      [i \in 0..\h03BF |-> \hFF],
      [i \in 0..\h03FF |-> i % 256] }

InitRender ==
    /\ pos = "host"
    /\ cpu = CPU_new
    /\ bus = Bus_new(Rom(\h8000, ZeroArray))
    /\ \E chr_rom \in RenderChrs, vram \in RenderVrams :
          ppu = [NesPPU_new(chr_rom, "Vertical") EXCEPT !.vram = vram]
    /\ fault = "none" /\ frames = 0 /\ build = "debug" /\ halted = FALSE
    /\ last = NoLast /\ calls = << >> /\ prev = NoPrev /\ ops = 0
    /\ frame = Frame_new

RenderCycles == {85}
MaxRenderCycle == 29835

\* Bus::tick with the closure of main as gameloop_callback: when the tick
\* completes a frame, render::render(ppu, &mut frame) runs before the tick
\* returns, and a panic in it is a panic of the tick.
Render ==
    \E n \in RenderCycles :
        /\ fault = "none"
        /\ bus.cycle + n <= MaxRenderCycle
        /\ With(bus_tick(Machine, n), LAMBDA m1 :
              IF Ok(m1) /\ m1.frames > frames
              THEN With(render(m1.ppu, frame), LAMBDA r :
                     /\ Commit([m1 EXCEPT !.fault = r.fault])
                     /\ frame' = r.data
                     /\ last' = [op |-> "render", a |-> 0, d |-> 0, r |-> 0])
              ELSE /\ Commit(m1)
                   /\ frame' = frame
                   /\ last' = [op |-> "tick", a |-> 0, d |-> 0, r |-> 0])
        /\ UNCHANGED <<pos, halted, calls, prev, ops>>

NextRender ==
    \/ Render
    \/ HostWrite({\h2000}, {\h00, \h10})

SpecRender == InitRender /\ [][NextRender]_vars

----------------------------------------------------------------------------
(* Properties.                                                             *)

DotsPerScanline == 341
ScanlinesPerFrame == 262
DotsPerFrame == DotsPerScanline * ScanlinesPerFrame

\* The register a CPU address in 0x2000..0x3FFF selects.
RegisterOf(a) == \h2000 + (a % 8)

\* The byte a CPU read of RAM or ROM sees in the current state.
MemAt(a) == mem_read(Machine, a % 65536).v

\* The cell of page 1 that is `k` above the stack pointer `sp`.
StackCell(ram, sp, k) == Peek(ram, STACK_TOP + ((sp + k) % 256))

\* C1: after any sequence of ticks the PPU position scanline*341 + dot is
\* 3 times the Bus cycle counter modulo 341*262: no dot is lost.
C1_PpuFollowsBus ==
    fault = "none" =>
        ppu.scanline * DotsPerScanline + ppu.cycle = (3 * bus.cycle) % DotsPerFrame

\* C2: every frame completes, whatever CTRL holds: a tick never ends the run
\* at the vertical blank, and the frame callback is invoked once for each
\* wrap of the scanline counter and at no other time.
C2_EveryFrameCompletes ==
    [][last'.op = "tick" =>
          /\ fault' # "todo_nmi"
          /\ frames' = frames + (IF ppu'.scanline < ppu.scanline THEN 1 ELSE 0)]_vars

\* C3: a tick that moves the scanline onto 241 with CTRL's NMI-enable bit set
\* sets the VBlank flag and leaves an NMI request pending, and emulation
\* continues; with the bit clear it sets neither.
C3_VblankRaisesNmi ==
    [][(last'.op = "tick" /\ ppu.scanline = 240 /\ ppu'.scanline = 241) =>
          IF Contains(ppu.ctrl, GENERATE_NMI)
          THEN /\ fault' = "none"
               /\ Contains(ppu'.status, VBLANK_STARTED)
               /\ ppu'.nmi_interrupt # None
          ELSE /\ ppu'.status = ppu.status
               /\ ppu'.nmi_interrupt = ppu.nmi_interrupt]_vars

\* C4: a request pending at the top of the loop is serviced there, once: PC
\* is pushed high byte first, then P with B clear and U set; I is set, the Bus
\* advances 2 cycles, PC comes from the vector at 0xFFFA and the request is
\* cleared.  With no request the top of the loop changes nothing, and only
\* the top of the loop clears a request.
C4_NmiService ==
    [][/\ (pos = "poll" /\ pos' = "fetch" /\ ppu.nmi_interrupt # None /\ fault' = "none") =>
            /\ ppu'.nmi_interrupt = None
            /\ StackCell(bus'.cpu_vram, cpu.stack_pointer, 0) = cpu.program_counter \div 256
            /\ StackCell(bus'.cpu_vram, cpu.stack_pointer, 255) = cpu.program_counter % 256
            /\ StackCell(bus'.cpu_vram, cpu.stack_pointer, 254)
                 = BitOr(BitAnd(cpu.status, \hEF), \h20)
            /\ cpu'.stack_pointer = (cpu.stack_pointer + 253) % 256
            /\ cpu'.status = BitOr(cpu.status, \h04)
            /\ bus'.cycle = bus.cycle + 2
            /\ cpu'.program_counter = MemAt(\hFFFA) + 256 * MemAt(\hFFFB)
            /\ cpu'.register_a = cpu.register_a
            /\ cpu'.register_x = cpu.register_x
            /\ cpu'.register_y = cpu.register_y
       /\ (pos = "poll" /\ pos' = "fetch" /\ ppu.nmi_interrupt = None) =>
            (cpu' = cpu /\ bus' = bus /\ ppu' = ppu)
       /\ (ppu.nmi_interrupt # None /\ ppu'.nmi_interrupt = None) => pos = "poll"]_vars

C4_Serviced ==
    /\ last.op = "nmi" /\ fault = "none"
    /\ cpu.program_counter = \h9000
    /\ bus.cycle = 8

\* C5: a write to $2000 latches an NMI request exactly when the enable bit
\* was 0 before it, is 1 after it and the VBlank flag is set; otherwise the
\* pending request is as it was.
C5_CtrlWriteLatch ==
    [][(last'.op = "write" /\ RegisterOf(last'.a) = \h2000) =>
          IF /\ ~Contains(ppu.ctrl, \h80)
             /\ Contains(ppu'.ctrl, \h80)
             /\ Contains(ppu.status, \h80)
          THEN ppu'.nmi_interrupt # None
          ELSE ppu'.nmi_interrupt = ppu.nmi_interrupt]_vars

C5_Latched ==
    /\ last.op = "write" /\ RegisterOf(last.a) = \h2000 /\ last.d = \h80
    /\ ppu.nmi_interrupt # None
    /\ Contains(ppu.status, \h80)

\* C6: a read of $2002 returns the status as it was, clears only the VBlank
\* bit and resets both latches: the $2006 write that follows is the high
\* address byte and the $2005 write that follows is scroll X.  The high
\* byte is stored as AddrRegister::update stores it: without bit 7, which is
\* all that its mask clears (C13), and with the low byte left as it was.
C6_StatusRead ==
    [][/\ (last'.op = "read" /\ RegisterOf(last'.a) = \h2002) =>
            /\ last'.r = ppu.status
            /\ ppu'.status = BitAnd(ppu.status, \h7F)
            /\ ppu'.addr.hi_ptr /\ ~ppu'.scroll.latch
       /\ (last.op = "read" /\ last'.op = "write" /\ RegisterOf(last'.a) = \h2006) =>
            ppu'.addr.value = <<last'.d % 128, ppu.addr.value[2]>>
       /\ (last.op = "read" /\ last'.op = "write" /\ RegisterOf(last'.a) = \h2005) =>
            (ppu'.scroll.scroll_x = last'.d /\ ppu'.scroll.scroll_y = ppu.scroll.scroll_y)]_vars

C6_ReadMidway ==
    /\ last.op = "read" /\ last.r = \hA0
    /\ ppu.status = \h20
    /\ ppu.addr.value[1] = \h7F /\ ppu.addr.value[2] = 0
    /\ ppu.scroll.scroll_x = \h80

\* C7: in every CPU state P has bit 5 (U) set and bit 4 (B) clear.
C7_StatusBits ==
    fault = "none" => (cpu.status \div 32) % 2 = 1 /\ (cpu.status \div 16) % 2 = 0

C7_PulledBreak ==
    /\ last.op = "exec" /\ last.d \in {\h28, \h40} /\ fault = "none"
    /\ Peek(bus.cpu_vram, STACK_TOP + ((cpu.stack_pointer + (IF last.d = \h40 THEN 254 ELSE 0)) % 256))
         \in {\h10, \hCF}

\* The penalty an instruction has earned for itself: 1 for a page crossed by
\* an indexed read, 1 for a branch taken and 1 more for a branch to another
\* page.  pc is the address of the opcode.
PageCrossReads == {"ADC", "AND", "CMP", "EOR", "LDA", "LDX", "LDY", "ORA", "SBC"}

BranchTaken(name, p) ==
    CASE name = "BCC" -> p % 2 = 0
      [] name = "BCS" -> p % 2 = 1
      [] name = "BNE" -> (p \div 2) % 2 = 0
      [] name = "BEQ" -> (p \div 2) % 2 = 1
      [] name = "BVC" -> (p \div 64) % 2 = 0
      [] name = "BVS" -> (p \div 64) % 2 = 1
      [] name = "BPL" -> (p \div 128) % 2 = 0
      [] name = "BMI" -> (p \div 128) % 2 = 1
      [] OTHER -> FALSE

PenaltyDue(code, pc) ==
    LET name == OPECODE_MAP[code][2]
        mode == OPECODE_MAP[code][5]
        abs  == MemAt(pc + 1) + 256 * MemAt(pc + 2)
        zp   == MemAt(pc + 1)
        ind  == MemAt(zp) + 256 * MemAt((zp + 1) % 256)
        base == IF mode = "Indirect_Y" THEN ind ELSE abs
        idx  == IF mode = "Absolute_X" THEN cpu.register_x ELSE cpu.register_y
        eff  == (base + idx) % 65536
        rel  == IF zp >= 128 THEN zp - 256 ELSE zp
        dest == (pc + 2 + rel) % 65536
    IN  IF name \in PageCrossReads /\ mode \in {"Absolute_X", "Absolute_Y", "Indirect_Y"}
        THEN (IF base \div 256 # eff \div 256 THEN 1 ELSE 0)
        ELSE IF BranchTaken(name, cpu.status)
        THEN (IF ((pc + 2) % 65536) \div 256 # dest \div 256 THEN 2 ELSE 1)
        ELSE 0

\* C8: every instruction advances the Bus by its base cycles plus the
\* penalties it has earned itself; no earlier penalty is charged again.
C8_CyclesPerInstruction ==
    [][(pos = "fetch" /\ pos' = "poll" /\ fault' = "none" /\ ~halted') =>
          bus'.cycle - bus.cycle
              = OPECODE_MAP[last'.d][4] + PenaltyDue(last'.d, cpu.program_counter)]_vars

\* C9: a write to a in 0x0000..0x1FFF is read back at every address with the
\* same low 11 bits, and changes what no other RAM address reads and nothing
\* in the PPU.
C9_RamRoundTrip ==
    [][(last'.op = "write" /\ last'.a \in 0..\h1FFF) =>
          /\ \A b \in RamAddrs \cup {(last'.a + k * 2048) % 8192 : k \in 0..3} :
                mem_read(Machine, b).v' =
                    IF b % 2048 = last'.a % 2048 THEN last'.d ELSE mem_read(Machine, b).v
          /\ \A c \in (DOMAIN bus.cpu_vram) \cup (DOMAIN bus'.cpu_vram) :
                c # last'.a % 2048 => Peek(bus'.cpu_vram, c) = Peek(bus.cpu_vram, c)
          /\ ppu' = ppu
          /\ fault' = "none"]_vars

C9_MirrorReadBack ==
    /\ last.op = "read" /\ last.a = \h1800 /\ last.r = \h55
    /\ Peek(bus.cpu_vram, \h07FF) = \hFF
    /\ \A c \in DOMAIN bus.cpu_vram : c < 2048

\* C10: JSR at a pushes a + 2, high byte first; RTS sets PC to the popped
\* word plus 1 and SP two up; an RTS executed with SP at the value the JSR
\* left resumes at a + 3 with SP as before the JSR.
C10_JsrRts ==
    [][/\ (last'.op = "exec" /\ last'.d = \h20 /\ fault' = "none") =>
            /\ StackCell(bus'.cpu_vram, cpu.stack_pointer, 0)
                 = ((cpu.program_counter + 2) % 65536) \div 256
            /\ StackCell(bus'.cpu_vram, cpu.stack_pointer, 255)
                 = (cpu.program_counter + 2) % 256
            /\ cpu'.stack_pointer = (cpu.stack_pointer + 254) % 256
       /\ (last'.op = "exec" /\ last'.d = \h60 /\ fault' = "none") =>
            /\ cpu'.program_counter
                 = (StackCell(bus.cpu_vram, cpu.stack_pointer, 1)
                    + 256 * StackCell(bus.cpu_vram, cpu.stack_pointer, 2) + 1) % 65536
            /\ cpu'.stack_pointer = (cpu.stack_pointer + 2) % 256
       /\ (/\ last'.op = "exec" /\ last'.d = \h60 /\ fault' = "none"
           /\ calls # << >>
           /\ cpu.stack_pointer = (Head(calls).sp + 254) % 256) =>
            /\ cpu'.program_counter = (Head(calls).at + 3) % 65536
            /\ cpu'.stack_pointer = Head(calls).sp]_vars

C10_Returned ==
    /\ last.op = "exec" /\ last.d = \h60 /\ fault = "none"
    /\ cpu.program_counter = \h8100
    /\ cpu.stack_pointer = INITIAL_STACK
    /\ calls = << >>

\* C11: PHA and then PLA leave A as it was before the PHA, PHP and then PLP
\* leave every bit of P as it was before the PHP, and both pairs leave SP as
\* it was, whatever A, P and SP were.
C11_PushPull ==
    [][(pos = "fetch" /\ fault' = "none") =>
          /\ (prev.d = \h48 /\ last'.d = \h68) =>
                 /\ cpu'.register_a = prev.a
                 /\ cpu'.stack_pointer = prev.sp
          /\ (prev.d = \h08 /\ last'.d = \h28) =>
                 /\ cpu'.status = prev.p
                 /\ cpu'.stack_pointer = prev.sp]_vars

\* PHP and PLP have run with the stack pointer at the bottom of page 1 and
\* six flags set.
C11_Pulled ==
    /\ fault = "none" /\ pos = "poll"
    /\ prev.before = \h08 /\ prev.d = \h28
    /\ cpu.status = \hEF /\ cpu.stack_pointer = \h00

\* The operand of the three-byte instruction at PC: the pointer of a JMP
\* indirect.
PointerAtPc == Word(MemAt(cpu.program_counter + 2), MemAt(cpu.program_counter + 1))

\* The address a JMP through `p` fetches from the pointer's own page.
SamePageTarget(p) == Word(MemAt(BitAnd(p, \hFF00)), MemAt(p))

\* C12: JMP indirect through a pointer p whose low byte is 0xFF sets PC to
\* mem[p] | mem[p & 0xFF00] << 8, and with 0x80, 0x40, 0x50 stored to 0x30FF,
\* 0x3000, 0x3100 the JMP ($30FF) ends with PC = 0x4080.
C12_JmpIndirect ==
    [][(pos = "fetch" /\ fault = "none" /\ last'.d = \h6C
        /\ Lo(PointerAtPc) = \hFF) =>
          /\ fault' = "none"
          /\ cpu'.program_counter = SamePageTarget(PointerAtPc)
          /\ PointerAtPc = \h30FF => cpu'.program_counter = \h4080]_vars

\* C13: whatever is written to $2006 and however often $2007 is read and
\* written, the VRAM address is at most 0x3FFF, and no access to $2007 finds
\* an address outside 0x0000..0x3FFF.
C13_AddrInRange ==
    /\ addr_get(ppu.addr) <= \h3FFF
    /\ fault # "unexpected_access"

\* The logical nametable of a PPU address in 0x2000..0x3EFF and the offset in it.
LogicalTable(a) == (a % \h1000) \div \h400
TableOffset(a) == a % \h400

\* The physical table a logical table is kept in.
PhysicalTable(mirroring, t) ==
    CASE mirroring = "Vertical" -> t % 2
      [] mirroring = "Horizontal" -> t \div 2
      [] OTHER -> t

\* C16: for every address in 0x2000..0x3EFF the mapper returns an index below
\* 2048: the offset of the address in its table, in physical table 0, 1, 0, 1
\* for logical tables 0, 1, 2, 3 under Vertical mirroring and 0, 0, 1, 1 under
\* Horizontal mirroring.
C16_MirrorMap ==
    last.op = "mirror" =>
        /\ last.r < 2048
        /\ last.r = PhysicalTable(ppu.mirroring, LogicalTable(last.a)) * \h400
                      + TableOffset(last.a)

\* The last address of logical table 2 seen through the mirror at 0x3000,
\* mapped under Horizontal mirroring to the end of physical table 1.
C16_Mapped ==
    /\ last.op = "mirror" /\ last.a = \h3BFF
    /\ ppu.mirroring = "Horizontal" /\ last.r = \h7FF

\* The byte the PPU holds at an address below 0x3F00: in CHR ROM, or in the
\* physical nametable the address is kept in.
PpuByteAt(a) ==
    IF a < \h2000 THEN Peek(ppu.chr_rom.bytes, a)
    ELSE Peek(ppu.vram, PhysicalTable(ppu.mirroring, LogicalTable(a)) * \h400
                        + TableOffset(a))

\* C14: a read of $2007 at an address in 0x0000..0x3EFF returns what the read
\* buffer held and loads the byte at the address into the buffer; the second
\* of two consecutive reads returns the byte at the first read's address.
C14_BufferedRead ==
    [][(last'.op = "data_read" /\ ops' = ops + 1 /\ fault' = "none"
        /\ last'.a <= \h3EFF) =>
          /\ last'.r = ppu.internal_data_buf
          /\ ppu'.internal_data_buf = PpuByteAt(last'.a)
          /\ (last.op = "data_read" /\ last.a <= \h3EFF) =>
                 last'.r = PpuByteAt(last.a)]_vars

\* Two reads at 0x0000 and 0x0001 of a CHR ROM that starts 0x11, 0x22: the
\* second has returned 0x11 and left 0x22 in the buffer.
C14_SecondRead ==
    /\ fault = "none" /\ ops = 2
    /\ last.op = "data_read" /\ last.a = \h0001 /\ last.r = \h11
    /\ ppu.internal_data_buf = \h22

\* The palette byte of an address in 0x3F00..0x3FFF.
PaletteByteAt(a) == Peek(ppu.palette_table, (a - \h3F00) % 32)

\* C15: a read of $2007 at an address in 0x3F00..0x3FFF returns the palette
\* byte of the address at once, and loads the read buffer with the nametable
\* byte that lies under the palette, at the address less 0x1000.
C15_PaletteRead ==
    [][(last'.op = "data_read" /\ ops' = ops + 1 /\ fault' = "none"
        /\ last'.a >= \h3F00) =>
          /\ last'.r = PaletteByteAt(last'.a)
          /\ ppu'.internal_data_buf = PpuByteAt(last'.a - \h1000)]_vars

\* What the second of two reads of $2007 returns when the address is first
\* set to b: $2002 read, b written to $2006 high byte first, $2007 read twice.
SecondReadAt(m, b) ==
    With([m EXCEPT !.ppu = write_to_ppu_addr(
                               write_to_ppu_addr(read_status(@).p, Hi(b)), Lo(b))],
         LAMBDA m1 : With(read_data(m1), LAMBDA r1 : read_data(r1.m)))

\* The nametable addresses that name the same cell as a: a itself, the
\* address in the logical table mirrored onto a's, and both seen through the
\* mirror 0x1000 above.
MirrorsOf(mirroring, a) ==
    LET t       == LogicalTable(a)
        partner == IF mirroring = "Vertical" THEN (t + 2) % 4
                   ELSE IF t % 2 = 0 THEN t + 1 ELSE t - 1
        here    == \h2000 + t * \h400 + TableOffset(a)
        there   == \h2000 + partner * \h400 + TableOffset(a)
    IN  {here, there, here + \h1000, there + \h1000} \cap (\h2000..\h3EFF)

\* C17: under Vertical or Horizontal mirroring a byte written through $2007
\* at an address a in 0x2000..0x3EFF is what the second of two reads returns
\* at a and at every address that mirrors a.
C17_WriteReadBack ==
    (/\ last.op = "data_write"
     /\ ppu.mirroring \in {"Vertical", "Horizontal"}
     /\ last.a \in \h2000..\h3EFF) =>
        /\ fault = "none"
        /\ \A b \in MirrorsOf(ppu.mirroring, last.a) :
               With(SecondReadAt(Machine, b), LAMBDA r :
                   r.m.fault = "none" /\ r.v = last.d)

\* C18: under FourScreen mirroring an access to $2007 at a nametable address,
\* in whichever logical table, ends in a fatal error, and no nametable byte
\* is stored.
C18_FourScreenFaults ==
    (/\ ppu.mirroring = "FourScreen"
     /\ last.op \in {"data_read", "data_write"}
     /\ last.a \in \h2000..\h3EFF) =>
        /\ fault # "none"
        /\ ppu.vram = ZeroArray

\* C19: a write to an address in 0x8000..0xFFFF ends in the fatal error of a
\* write to ROM, and the PRG ROM holds what the cartridge held in every state.
C19_RomUnchanged ==
    /\ (last.op = "write" /\ last.a \in \h8000..\hFFFF) => fault = "write_to_rom"
    /\ bus.prg_rom = FaultRom(bus.prg_rom.len)

\* After writes to RAM, 0x5A has been written to 0xFFFF.
C19_RomWritten ==
    /\ last.op = "write" /\ last.a = \hFFFF /\ last.d = \h5A
    /\ fault = "write_to_rom"
    /\ bus.cpu_vram # ZeroArray

\* The addresses of the write-only registers: 0x4014, and 0x2000, 0x2001,
\* 0x2003, 0x2005, 0x2006 with their mirrors up to 0x3FFF.
WriteOnlyRegister(a) ==
    \/ a = \h4014
    \/ a \in \h2000..\h3FFF /\ a % 8 \in {0, 1, 3, 5, 6}

\* C20: a read of a write-only register, or of a mirror of one, ends in the
\* fatal error of such a read, and so does a write to $2002 in that of a
\* write to a read-only register.
C20_RegisterFaults ==
    /\ (last.op = "read" /\ WriteOnlyRegister(last.a)) => fault = "read_write_only"
    /\ (last.op = "write" /\ last.a = \h2002) => fault = "write_read_only"

\* After a write to RAM, 0x3FFD, a mirror of $2005, has been read.
C20_MirrorRead ==
    /\ last.op = "read" /\ last.a = \h3FFD
    /\ fault = "read_write_only"
    /\ bus.cpu_vram # ZeroArray

\* The opcode is fetched from RAM, from PRG ROM or from the unmapped space
\* below it, and not from the last byte of the address space.
FetchedFromMemory ==
    /\ cpu.program_counter \notin \h2000..\h4017
    /\ cpu.program_counter < \hFFFF

\* C21: the run loop returns exactly when the opcode fetched is 0x00; every
\* other opcode that completes goes on to the next fetch; and on BRK the loop
\* returns with nothing pushed, A, X, Y, P and SP as they were, and the Bus
\* and the PPU not advanced.
C21_ReturnsOnBrk ==
    [][(pos = "fetch" /\ pos' = "poll") =>
          /\ halted' => (last'.d = \h00 /\ fault' = "none")
          /\ (last'.d = \h00 /\ FetchedFromMemory) => halted'
          /\ halted' =>
                /\ cpu'.register_a = cpu.register_a
                /\ cpu'.register_x = cpu.register_x
                /\ cpu'.register_y = cpu.register_y
                /\ cpu'.status = cpu.status
                /\ cpu'.stack_pointer = cpu.stack_pointer
                /\ bus' = bus /\ ppu' = ppu /\ frames' = frames]_vars

\* LDA #5 has run for its two cycles, and the BRK after it has returned.
C21_Returned ==
    /\ halted /\ fault = "none"
    /\ last.op = "exec" /\ last.d = \h00 /\ last.r = 0
    /\ prev.before = \hA9
    /\ cpu.register_a = \h05 /\ bus.cycle = 2

\* The flags an instruction that only loads or counts leaves alone.
OtherFlags == {CARRY, INTERRUPT_DISABLE, DECIMAL, OVERFLOW}

\* Z and N of the status byte st are those of the byte v.
ZeroNegativeOf(st, v) ==
    /\ Contains(st, ZERO) <=> v = 0
    /\ Contains(st, NEGATIVE) <=> v >= 128

\* The byte LDA immediate (0xA9) or LDA zero page (0xA5) at PC loads.
LdaByte(code) ==
    IF code = \hA9 THEN MemAt(cpu.program_counter + 1)
    ELSE MemAt(MemAt(cpu.program_counter + 1))

\* C22: LDA immediate and LDA zero page set A to the byte at the effective
\* address, Z iff the byte is 0 and N iff its bit 7 is 1, and leave X, Y, SP
\* and the flags C, V, I, D as they were.
C22_Lda ==
    [][(pos = "fetch" /\ pos' = "poll" /\ last'.d \in {\hA9, \hA5}
        /\ fault' = "none") =>
          /\ cpu'.register_a = LdaByte(last'.d)
          /\ ZeroNegativeOf(cpu'.status, LdaByte(last'.d))
          /\ cpu'.register_x = cpu.register_x
          /\ cpu'.register_y = cpu.register_y
          /\ cpu'.stack_pointer = cpu.stack_pointer
          /\ \A f \in OtherFlags : Contains(cpu'.status, f) <=> Contains(cpu.status, f)]_vars

\* LDA $10 has loaded 0x80 from a state with Z, C, V and D set.
C22_Loaded ==
    /\ fault = "none" /\ last.op = "exec" /\ last.d = \hA5
    /\ prev.p = \hEF
    /\ cpu.register_a = \h80 /\ cpu.status = \hED
    /\ cpu.register_x = \h11 /\ cpu.stack_pointer = \h80

\* The loop has returned from the BRK that ends the program `prog`, which
\* lies at 0x8000: PC is one past the BRK.
Finished(prog) ==
    /\ halted /\ fault = "none"
    /\ cpu.program_counter = \h8000 + Len(prog)
    /\ \A i \in 1..Len(prog) : MemAt(\h8000 + i - 1) = prog[i]

\* C23: after LDA #v; TAX; INX k times; BRK, X is (v + k) mod 256, A is v,
\* and Z and N are those of the final X.
C23_Inx ==
    \A v \in CountSamples, k \in 0..MaxInx :
        Finished(InxProgram(v, k)) =>
            /\ cpu.register_x = (v + k) % 256
            /\ cpu.register_a = v
            /\ ZeroNegativeOf(cpu.status, (v + k) % 256)

\* LDA #0xFF; TAX; INX; INX; BRK has ended with X = 1, A = 0xFF, Z and N clear.
C23_Wrapped ==
    /\ Finished(InxProgram(\hFF, 2))
    /\ cpu.register_x = \h01 /\ cpu.register_a = \hFF
    /\ ~Contains(cpu.status, ZERO) /\ ~Contains(cpu.status, NEGATIVE)

\* The carry flag of the current state, as 0 or 1.
CarryIn == IF Contains(cpu.status, CARRY) THEN 1 ELSE 0

\* The step from the current state has left A, C, V, Z and N as the binary
\* addition of A, the byte mv and the carry does.
AddsByte(mv) ==
    LET sum    == cpu.register_a + mv + CarryIn
        result == sum % 256
    IN  /\ cpu'.register_a = result
        /\ Contains(cpu'.status, CARRY) <=> sum > \hFF
        /\ Contains(cpu'.status, OVERFLOW) <=>
              BitAnd(BitAnd(BitXor(cpu.register_a, result), BitXor(mv, result)), \h80) # 0
        /\ ZeroNegativeOf(cpu'.status, result)

\* The operand byte of ADC or SBC at PC: immediate (0x69, 0xE9) or zero page
\* (0x65, 0xE5).
ArithByte(code) ==
    IF code \in {\h69, \hE9} THEN MemAt(cpu.program_counter + 1)
    ELSE MemAt(MemAt(cpu.program_counter + 1))

\* C24: ADC sets A to (A + M + C) mod 256, C iff the sum exceeds 0xFF, V iff
\* (A_old xor result) and (M xor result) and 0x80 is not 0, and Z and N from
\* the result.
C24_Adc ==
    [][(pos = "fetch" /\ pos' = "poll" /\ last'.d \in {\h69, \h65}
        /\ fault' = "none") => AddsByte(ArithByte(last'.d))]_vars

\* ADC #0x50 on A = 0x50 with the carry set has given 0xA1: V and N set, C
\* and Z clear.
C24_Added ==
    /\ fault = "none" /\ last.op = "exec" /\ last.d = \h69
    /\ prev.a = \h50 /\ prev.p = \h65
    /\ cpu.register_a = \hA1 /\ cpu.status = \hE4

\* C25: SBC leaves in A, C, V, Z and N exactly what ADC leaves when its
\* operand is M xor 0xFF.
C25_Sbc ==
    [][(pos = "fetch" /\ pos' = "poll" /\ last'.d \in {\hE9, \hE5}
        /\ fault' = "none") =>
          AddsByte(BitXor(ArithByte(last'.d), \hFF))]_vars

\* SBC #0x01 on A = 0x80 with the carry set has given 0x7F: V and C set, Z
\* and N clear.
C25_Subtracted ==
    /\ fault = "none" /\ last.op = "exec" /\ last.d = \hE9
    /\ prev.a = \h80 /\ prev.p = \h65
    /\ cpu.register_a = \h7F /\ cpu.status = \h65

\* The penalty cycles the branch `code` at pc earns from the status p: the
\* following instruction is at pc + 2, the destination is that address plus
\* the signed offset at pc + 1.
BranchPenalty(code, pc, p) ==
    LET off  == MemAt(pc + 1)
        nxt  == (pc + 2) % 65536
        dest == (nxt + (IF off >= 128 THEN off - 256 ELSE off) + 65536) % 65536
    IN  IF ~BranchTaken(OPECODE_MAP[code][2], p) THEN 0
        ELSE IF dest \div 256 = nxt \div 256 THEN 1
        ELSE 2

\* C26: a conditional branch adds no penalty cycle when it is not taken, 1
\* when it is taken to the page of the following instruction, and 2 when it
\* is taken to another page.
C26_BranchPenalty ==
    [][(pos = "fetch" /\ pos' = "poll" /\ last'.d \in BranchCodes
        /\ fault' = "none") =>
          cpu'.extra_cycles - cpu.extra_cycles
              = BranchPenalty(last'.d, cpu.program_counter, cpu.status)]_vars

\* BNE +0 at 0x80FE, taken: the destination 0x8100 is the following
\* instruction, and one penalty cycle is added to none.
C26_TakenSamePage ==
    /\ fault = "none" /\ last.op = "exec" /\ last.d = \hD0
    /\ prev.p = \h24 /\ prev.before = 256
    /\ cpu.program_counter = \h8100
    /\ cpu.extra_cycles = 1 /\ bus.cycle = 3

\* The byte of Frame.data at offset off, in the current state and in the next.
FrameByte(off) == Peek(frame, off)
NextFrameByte(off) == Peek(frame', off)

\* C27: set_pixcel(x, y, rgb) with x < 256 and y < 240 writes rgb to the
\* three bytes at (y*256 + x)*3 and changes no other byte; with x >= 256 or
\* y >= 240 it changes no byte at all.
C27_SetPixel ==
    [][last'.op = "set_pixcel" =>
          \A off \in (DOMAIN frame) \cup (DOMAIN frame') :
              NextFrameByte(off) =
                  IF /\ last'.a < 256 /\ last'.d < 240
                     /\ off \in ((last'.d * 256 + last'.a) * 3)..((last'.d * 256 + last'.a) * 3 + 2)
                  THEN last'.r[off - (last'.d * 256 + last'.a) * 3 + 1]
                  ELSE FrameByte(off)]_vars

\* The colour the claim has at the frame coordinate (px, py): that of bit
\* 7 - px % 8 of row py % 8 of the tile at (px / 8, py / 8).
TilePixelRgb(px, py) ==
    LET i     == (py \div 8) * 32 + (px \div 8)
        upper == Peek(ppu.chr_rom.bytes, TileStart(ppu, i) + (py % 8))
        lower == Peek(ppu.chr_rom.bytes, TileStart(ppu, i) + (py % 8) + 8)
        shift == 2 ^ (7 - (px % 8))
    IN  TileRgb(((upper \div shift) % 2) * 2 + ((lower \div shift) % 2))

\* C28: after render the pixel at (tx*8 + (7-b), ty*8 + r) has the colour of
\* bit b of row r of the tile at (tx, ty), for the 32 x 30 tiles of the first
\* nametable: every pixel of the frame is drawn, by its own tile.
C28_RenderTiles ==
    (last.op = "render" /\ fault = "none") =>
        \A px \in 0..255, py \in 0..239, k \in 0..2 :
            FrameByte((py * 256 + px) * 3 + k) = TilePixelRgb(px, py)[k + 1]

\* C29: while the emulator runs, the PPU's dot counter is in 0..340 and its
\* scanline counter in 0..261, whatever ticks the Bus has been given.
C29_CountersInRange ==
    fault = "none" =>
        /\ ppu.cycle \in 0..(DotsPerScanline - 1)
        /\ ppu.scanline \in 0..(ScanlinesPerFrame - 1)

\* A tick has taken the scanline counter from 261 back to 0 and the frame
\* callback has run.
C29_FrameWrapped ==
    /\ fault = "none" /\ last.op = "tick"
    /\ frames = 1 /\ ppu.scanline = 0
    /\ bus.cycle * 3 >= DotsPerFrame

\* The instruction `code` at PC transfers control: a jump, a call, a return
\* or a branch whose condition holds.
Transfers(code) ==
    \/ code \in {\h4C, \h6C, \h20, \h60, \h40}
    \/ code \in BranchCodes /\ BranchTaken(OPECODE_MAP[code][2], cpu.status)

\* The address its handler computes: the operand of JMP absolute and JSR,
\* the word JMP indirect fetches, the return address RTS pops plus 1, the
\* address RTI pops above the status, and for a branch the address after it
\* plus the signed offset.
TransferTarget(code) ==
    LET pc  == cpu.program_counter
        off == MemAt(pc + 1)
    IN  CASE code \in {\h4C, \h20} -> PointerAtPc
          [] code = \h6C ->
               IF Lo(PointerAtPc) = \hFF THEN SamePageTarget(PointerAtPc)
               ELSE Word(MemAt(PointerAtPc + 1), MemAt(PointerAtPc))
          [] code = \h60 ->
               (Word(StackCell(bus.cpu_vram, cpu.stack_pointer, 2),
                     StackCell(bus.cpu_vram, cpu.stack_pointer, 1)) + 1) % 65536
          [] code = \h40 ->
               Word(StackCell(bus.cpu_vram, cpu.stack_pointer, 3),
                    StackCell(bus.cpu_vram, cpu.stack_pointer, 2))
          [] OTHER ->
               (pc + 2 + (IF off >= 128 THEN off - 256 ELSE off) + 65536) % 65536

\* C30: after a jump, a call, a return or a taken branch PC is the target the
\* handler computed, whatever the target, the address after the opcode
\* included; after every other instruction PC is the opcode's address plus
\* the length the table gives.
C30_PcAfterInstruction ==
    [][(pos = "fetch" /\ pos' = "poll" /\ fault' = "none" /\ ~halted') =>
          cpu'.program_counter =
              IF Transfers(last'.d) THEN TransferTarget(last'.d)
              ELSE (cpu.program_counter + OPECODE_MAP[last'.d][3]) % 65536]_vars

\* The opcodes whose handler adds the resolver's page-crossed flag, and
\* nothing else, to the penalty counter.
PageCrossCodes ==
    { c \in OPCODES : /\ OPECODE_MAP[c][2] \in PageCrossReads
                      /\ OPECODE_MAP[c][5] \in {"Absolute_X", "Absolute_Y", "Indirect_Y"} }

\* C31: for Absolute_X, Absolute_Y and Indirect_Y the resolver reports a
\* page cross exactly when the high byte of base + index differs from the
\* high byte of base, which shows as one penalty cycle added or none.
C31_PageCrossed ==
    [][(pos = "fetch" /\ pos' = "poll" /\ last'.d \in PageCrossCodes
        /\ fault' = "none") =>
          cpu'.extra_cycles - cpu.extra_cycles
              = PenaltyDue(last'.d, cpu.program_counter)]_vars

\* The opcodes of the six combined unofficial instructions.
CombinedCodes ==
    { c \in OPCODES :
        OPECODE_MAP[c][2] \in {"*DCP", "*ISB", "*SLO", "*RLA", "*SRE", "*RRA"} }

\* The machine as a handler finds it: PC is at the operand of the opcode.
AtOperand ==
    [Machine EXCEPT !.cpu.program_counter = (cpu.program_counter + 1) % 65536]

\* The two official operations that a combined instruction stands for, run
\* one after the other on the same operand.
InSequence(name, m, mode) ==
    CASE name = "*DCP" -> cmp(dec(m, mode), mode)
      [] name = "*ISB" -> sbc(inc(m, mode), mode)
      [] name = "*SLO" -> ora(asl(m, mode).m, mode)
      [] name = "*RLA" -> and(rol(m, mode).m, mode)
      [] name = "*SRE" -> eor(lsr(m, mode).m, mode)
      [] name = "*RRA" -> adc(ror(m, mode).m, mode)

\* C32: DCP, ISB, SLO, RLA, SRE and RRA leave A, X, Y, every flag and the
\* operand byte as DEC then CMP, INC then SBC, ASL then ORA, ROL then AND,
\* LSR then EOR and ROR then ADC leave them.
C32_CombinedOpcodes ==
    [][(pos = "fetch" /\ pos' = "poll" /\ last'.d \in CombinedCodes
        /\ fault' = "none") =>
          With(InSequence(OPECODE_MAP[last'.d][2], AtOperand, OPECODE_MAP[last'.d][5]),
               LAMBDA e :
                 /\ cpu'.register_a = e.cpu.register_a
                 /\ cpu'.register_x = e.cpu.register_x
                 /\ cpu'.register_y = e.cpu.register_y
                 /\ cpu'.status = e.cpu.status
                 /\ bus'.cpu_vram = e.bus.cpu_vram)]_vars

\* The RAM cells that differ between the current state and the next.
RamChanged ==
    { c \in (DOMAIN bus.cpu_vram) \cup (DOMAIN bus'.cpu_vram) :
        Peek(bus'.cpu_vram, c) # Peek(bus.cpu_vram, c) }

\* C33: a push writes the byte at 0x0100 + SP and then takes 1 from SP
\* modulo 256; a pop adds 1 to SP modulo 256 and then reads 0x0100 + SP; a
\* word pushed is popped as the same word; no access leaves page 1.
C33_Stack ==
    [][(pos = "fetch" /\ pos' = "poll" /\ fault' = "none") =>
          /\ last'.d \in {\h48, \h08} =>
                /\ Peek(bus'.cpu_vram, STACK_TOP + cpu.stack_pointer)
                     = IF last'.d = \h48 THEN cpu.register_a
                       ELSE Insert(Insert(cpu.status, BREAK), RESERVED)
                /\ cpu'.stack_pointer = (cpu.stack_pointer + 255) % 256
                /\ RamChanged \subseteq {STACK_TOP + cpu.stack_pointer}
          /\ last'.d = \h68 =>
                /\ cpu'.stack_pointer = (cpu.stack_pointer + 1) % 256
                /\ cpu'.register_a = Peek(bus.cpu_vram, STACK_TOP + cpu'.stack_pointer)
                /\ RamChanged = {}
          /\ (prev.d = \h48 /\ last'.d = \h68) =>
                /\ cpu'.register_a = prev.a
                /\ cpu'.stack_pointer = prev.sp
          /\ last'.d = \h20 =>
                /\ cpu'.stack_pointer = (cpu.stack_pointer + 254) % 256
                /\ RamChanged \subseteq {STACK_TOP + cpu.stack_pointer,
                                          STACK_TOP + ((cpu.stack_pointer + 255) % 256)}
          /\ (prev.d = \h20 /\ last'.d = \h60 /\ calls # << >>) =>
                /\ cpu'.program_counter = (Head(calls).at + 3) % 65536
                /\ cpu'.stack_pointer = Head(calls).sp
                /\ RamChanged = {}]_vars

\* PHA at SP = 0x00 has written 0x0100 and left SP at 0xFF, and the PLA after
\* it has read 0x0100 again and left SP at 0x00.
C33_PoppedAtEdge ==
    /\ fault = "none" /\ pos = "poll"
    /\ prev.before = \h48 /\ prev.d = \h68
    /\ prev.sp = \hFF /\ cpu.stack_pointer = \h00
    /\ cpu.register_a = Peek(bus.cpu_vram, STACK_TOP) /\ cpu.register_a # 0

\* The 16-bit pointer held in page 0 at p: low byte at p, high byte at
\* (p + 1) mod 256.
ZeroPagePointer(p) == Word(MemAt((p + 1) % 256), MemAt(p))

\* The byte that the load `code` at PC reads when its zero-page arithmetic is
\* done in 8 bits: LDA zp,X (0xB5), LDX zp,Y (0xB6), LDA (zp,X) (0xA1) and
\* LDA (zp),Y (0xB1).
ZeroPageByte(code) ==
    LET operand == MemAt(cpu.program_counter + 1)
    IN  CASE code = \hB5 -> MemAt((operand + cpu.register_x) % 256)
          [] code = \hB6 -> MemAt((operand + cpu.register_y) % 256)
          [] code = \hA1 -> MemAt(ZeroPagePointer((operand + cpu.register_x) % 256))
          [] code = \hB1 -> MemAt((ZeroPagePointer(operand) + cpu.register_y) % 65536)

\* C34: ZeroPage_X and ZeroPage_Y address (operand + index) mod 256, and
\* Indirect_X and Indirect_Y take the pointer's high byte from
\* (pointer + 1) mod 256: the loads in these modes read the byte found that way.
C34_ZeroPageWrap ==
    [][(pos = "fetch" /\ pos' = "poll" /\ last'.d \in {\hB5, \hB6, \hA1, \hB1}
        /\ fault' = "none") =>
          (IF last'.d = \hB6 THEN cpu'.register_x ELSE cpu'.register_a)
              = ZeroPageByte(last'.d)]_vars

\* LDA ($F0,X) with X = 0x0F has taken its pointer from 0x00FF and 0x0000
\* and loaded the byte at 0x0340.
C34_PointerWrapped ==
    /\ fault = "none" /\ last.op = "exec" /\ last.d = \hA1
    /\ cpu.register_x = \h0F
    /\ MemAt(\h8001) = \hF0
    /\ cpu.register_a = \hAA


----------------------------------------------------------------------------
\* C35: every $2007 read, and every $2007 write that completes, leaves the
\* VRAM address at the address of the access plus 1 when CTRL bit 2 is clear
\* and plus 32 when it is set, modulo 0x4000; the access itself is made at
\* the address before the increment: a write stores its byte in the VRAM
\* cell of that address and a read fills the buffer from it.
DataStep ==
    /\ ops' = ops + 1
    /\ last'.op \in {"data_read", "data_write"}

Advance(a, ctrl) == (a + (IF (ctrl \div 4) % 2 = 1 THEN 32 ELSE 1)) % \h4000

C35_Advance ==
    [][ DataStep =>
          /\ (last'.op = "data_read" \/ fault' = "none") =>
                addr_get(ppu'.addr) = Advance(last'.a, ppu.ctrl)
          /\ (last'.op = "data_write" /\ fault' = "none"
                /\ last'.a \in \h2000..\h2FFF) =>
                Peek(ppu'.vram, mirror_vram_addr(ppu.mirroring, last'.a)) = last'.d
          /\ (last'.op = "data_read" /\ fault' = "none"
                /\ last'.a \in 0..\h1FFF) =>
                ppu'.internal_data_buf = Peek(VramChr.bytes, last'.a)
      ]_vars

----------------------------------------------------------------------------
\* C36: after a write of a byte to $2001 the PPU mask register holds that
\* byte.
C36_MaskWritten ==
    (fault = "none" /\ last.op = "write" /\ last.a = \h2001) =>
        ppu.mask = last.d


----------------------------------------------------------------------------
\* C37: a PPU tick and a read of the status register leave every bit of the
\* CTRL register as the last write of $2000 set it.
C37_CtrlKept ==
    [][ (fault' = "none" /\ last'.op \in {"tick", "read"}) =>
            ppu'.ctrl = ppu.ctrl ]_vars


----------------------------------------------------------------------------
\* C38: a $2007 read or write at a VRAM address in 0x3F00..0x3FFF completes
\* without a panic, and a write leaves its byte in the palette entry that
\* the address names modulo 32, with 0x10, 0x14, 0x18 and 0x1C stored in
\* 0x00, 0x04, 0x08 and 0x0C.
PaletteEntry(a) ==
    IF (a % 32) \in {\h10, \h14, \h18, \h1C} THEN (a % 32) - \h10 ELSE a % 32

C38_PaletteAccess ==
    (last.op \in {"data_read", "data_write"} /\ last.a \in \h3F00..\h3FFF) =>
        /\ fault = "none"
        /\ last.op = "data_write" =>
               Peek(ppu.palette_table, PaletteEntry(last.a)) = last.d


----------------------------------------------------------------------------
\* C39: the cycle count that the run loop hands to Bus::tick for an
\* instruction is at most 85, so that three times the count fits a byte.
C39_TickFits ==
    last.op = "exec" => last.r * 3 < 256


----------------------------------------------------------------------------
\* C40: load completes without a panic and leaves the program's bytes, in
\* order, at the address that the reset vector at 0xFFFC holds; reset then
\* sets the program counter to that address.
ResetVector == mem_read_u16(Machine, \hFFFC).v

C40_LoadAtVector ==
    /\ last.op = "load" =>
          /\ fault = "none"
          /\ \A i \in 1..Len(last.d) :
                mem_read(Machine, (ResetVector + i - 1) % 65536).v = last.d[i]
    /\ (last.op = "reset" /\ fault = "none") =>
          cpu.program_counter = ResetVector

====
